---- MODULE Spec2Model ----
(***************************************************************************)
(* Resource registries of mcp-browse: the browser / page registry of       *)
(* utils/browser-instances.ts with the puppeteer handlers that use it, and *)
(* the socket store of utils/socket-instances.ts with the connect, send,   *)
(* receive, close and list handlers.  JavaScript runs the handlers on one  *)
(* thread: a handler runs without interruption up to its next await, so    *)
(* every action below is one synchronous block of a handler or one         *)
(* callback of the event loop.                                             *)
(***************************************************************************)
EXTENDS Integers, Sequences, FiniteSets, TLC

\* ---------------------------------------------------------------- bounds
MaxBrowsers == 2      \* browser ids generateBrowserId hands out
MaxPages == 2         \* page ids generatePageId hands out
MaxCalls == 2         \* puppeteer handlers suspended on the driver at once
MaxSockets == 1       \* Spec: socket ids generateSocketId hands out
MaxConns == 3         \* Spec: WebSocket objects created (connects, reconnects)
MaxAttempts == 3      \* ReconnectSpec: maxReconnectAttempts values 1..MaxAttempts
MaxReconnectConns == 5  \* ReconnectSpec: WebSocket objects created
MaxAutoAttempts == 2  \* AutoSpec: maxReconnectAttempts values 1..MaxAutoAttempts
MaxAutoConns == 3     \* AutoSpec: WebSocket objects created
MaxLookupIds == 2     \* LookupSpec: ids 1..MaxLookupIds are asked for, id 1 is made
MaxIsoSockets == 2    \* IsoSpec: sessions side by side
MaxIsoConns == 3      \* IsoSpec: WebSocket objects created
MaxLatestQueue == 12  \* LatestSpec: messages the queue may hold
MaxListCalls == 3     \* ListSpec: handlers and list items suspended at once
MaxStoreIds == 1      \* StoreSpec: browsers, pages and sessions created
MaxStoreConns == 2    \* StoreSpec: WebSocket objects created
MaxStoreCalls == 1    \* StoreSpec: handlers and list items suspended at once
MaxSending == 1       \* socket.send callbacks pending at once
MaxQueue == 3         \* QueueSpec: messages a queue with no limit may hold
MaxTime == 1          \* QueueSpec: clock readings 0..MaxTime
MaxLimit == 2         \* QueueSpec: messageHistoryLimit values 0..MaxLimit

\* -------------------------------------------------------- program constants
DefaultMaxReconnectAttempts == 5
DefaultReconnectInterval == 1000
LatestCount == 10
DefaultMessageHistoryLimit == 100

VARIABLES
    mcpBrowsers,      \* global.mcpBrowsers: browser id -> BrowserInstance
    mcpPages,         \* global.mcpPages: page id -> PageInstance
    connected,        \* driver: browser handle -> browser.connected
    pageClosed,       \* driver: page handle -> page.isClosed()
    calls,            \* puppeteer handlers suspended at an await
    nextBrowserId,    \* ids are random words: modelled as never repeating
    nextPageId,
    sockets,          \* socket-instances.ts `sockets`: the ids in the store
    instances,        \* socket id -> the SocketInstance object made for it
                      \* (handlers keep the object after removeSocket)
    ws,               \* the WebSocket objects: handle -> readyState, owner
    timers,           \* pending reconnect setTimeout callbacks
    connecting,       \* connectSocket promises not yet resolved
    sending,          \* socket.send callbacks not yet called
    closing,          \* closeSocket calls: close listener and 5 s timeout
    now,              \* Date.now()
    ret               \* the response the last step returned, NoRet if none

bvars == <<mcpBrowsers, mcpPages, connected, pageClosed, calls,
           nextBrowserId, nextPageId>>

svars == <<sockets, instances, ws, timers, connecting, sending, closing, now>>

vars == <<bvars, svars, ret>>

\* ------------------------------------------------------------- responses
NoRet == [op |-> "none"]

\* JSON.stringify({success, error?, warning?, pageId?, cleanedPagesCount?})
\* of a puppeteer handler; id is the browserId or pageId the call named
BrowserRet(op, id, success, error) ==
    [op |-> op, id |-> id, success |-> success, error |-> error,
     warning |-> FALSE, pageId |-> 0, cleanedPagesCount |-> 0,
     listed |-> <<>>]

\* ------------------------------------------------ browser-instances.ts
BrowserInstance(id) == [id |-> id, browser |-> id]

\* a puppeteer Page of browser b: its first tab (tab 0) or the tab newPage made
PageHandle(b, tab) == [browser |-> b, tab |-> tab]

PageInstance(pageId, page, browserId) ==
    [id |-> pageId, page |-> page, browserId |-> browserId]

getBrowsers == mcpBrowsers

getPages == mcpPages

\* delete obj[key]
Delete(obj, keys) == [k \in (DOMAIN obj) \ keys |-> obj[k]]

\* an assignment that drops the other keys
Put_Alone(obj, key, value) == [k \in {key} |-> value]

\* obj[key] = value
Put(obj, key, value) == [k \in (DOMAIN obj) \cup {key} |-> IF k = key THEN value ELSE obj[k]]

\* a handler suspended at an await keeps its locals in a record of `calls`;
\* n tells two suspended calls with equal locals apart
Call(op, pc, id, url, page, tab) ==
    LET c(n) == [op |-> op, pc |-> pc, id |-> id, url |-> url, page |-> page,
                 tab |-> tab, n |-> n]
    IN  c(CHOOSE n \in 0..MaxCalls : c(n) \notin calls /\ \A m \in 0..(n - 1) : c(m) \in calls)

CanSuspend == Cardinality(calls) < MaxCalls

\* -------------------------------------------------------- launchBrowser
\* launch-browser.ts: the id is generated, then puppeteer.launch is awaited
LaunchBrowser(url) ==
    /\ nextBrowserId <= MaxBrowsers
    /\ CanSuspend
    /\ calls' = calls \cup {Call("launchBrowser", "launch", nextBrowserId, url, 0, 0)}
    /\ nextBrowserId' = nextBrowserId + 1
    /\ ret' = NoRet
    /\ UNCHANGED <<mcpBrowsers, mcpPages, connected, pageClosed, nextPageId>>

\* puppeteer.launch resolved or threw
LaunchBrowserLaunched(c, ok) ==
    /\ c \in calls /\ c.op = "launchBrowser" /\ c.pc = "launch"
    /\ IF ~ok
       THEN /\ calls' = calls \ {c}
            /\ ret' = BrowserRet("launchBrowser", c.id, FALSE, "LaunchError")
            /\ UNCHANGED <<mcpBrowsers, connected, pageClosed>>
       ELSE /\ mcpBrowsers' = Put(getBrowsers, c.id, BrowserInstance(c.id))
            /\ connected' = Put(connected, c.id, TRUE)
            /\ pageClosed' = Put(pageClosed, PageHandle(c.id, 0), FALSE)
            /\ IF c.url
               THEN /\ calls' = (calls \ {c}) \cup {[c EXCEPT !.pc = "pages"]}
                    /\ ret' = NoRet
               ELSE /\ calls' = calls \ {c}
                    /\ ret' = BrowserRet("launchBrowser", c.id, TRUE, "")
    /\ UNCHANGED <<mcpPages, nextBrowserId, nextPageId>>

\* browser.pages() resolved with no tab, with the first tab, or threw
LaunchBrowserPages(c, outcome) ==
    /\ c \in calls /\ c.op = "launchBrowser" /\ c.pc = "pages"
    /\ outcome = "page" => connected[c.id]
    /\ CASE outcome = "throw" ->
              /\ calls' = calls \ {c}
              /\ ret' = [BrowserRet("launchBrowser", c.id, TRUE, "")
                            EXCEPT !.warning = TRUE]
         [] outcome = "empty" ->
              /\ calls' = calls \ {c}
              /\ ret' = BrowserRet("launchBrowser", c.id, TRUE, "")
         [] outcome = "page" ->
              /\ calls' = (calls \ {c}) \cup {[c EXCEPT !.pc = "goto"]}
              /\ ret' = NoRet
    /\ UNCHANGED <<mcpBrowsers, mcpPages, connected, pageClosed,
                   nextBrowserId, nextPageId>>

\* defaultPage.goto resolved or threw; the page is registered after the goto
LaunchBrowserGoto(c, ok) ==
    /\ c \in calls /\ c.op = "launchBrowser" /\ c.pc = "goto"
    /\ calls' = calls \ {c}
    /\ IF ok
       THEN /\ ~pageClosed[PageHandle(c.id, 0)]
            /\ nextPageId <= MaxPages
            /\ mcpPages' = Put(getPages, nextPageId,
                               PageInstance(nextPageId, PageHandle(c.id, 0), c.id))
            /\ nextPageId' = nextPageId + 1
            /\ ret' = [BrowserRet("launchBrowser", c.id, TRUE, "")
                          EXCEPT !.pageId = nextPageId]
       ELSE /\ ret' = [BrowserRet("launchBrowser", c.id, TRUE, "")
                          EXCEPT !.warning = TRUE]
            /\ UNCHANGED <<mcpPages, nextPageId>>
    /\ UNCHANGED <<mcpBrowsers, connected, pageClosed, nextBrowserId>>

\* ------------------------------------------------------------- openPage
\* open-page.ts up to `await browser.newPage()`
OpenPage(browserId, url) ==
    /\ IF browserId \notin DOMAIN getBrowsers
       THEN /\ ret' = BrowserRet("openPage", browserId, FALSE, "NotFound")
            /\ UNCHANGED calls
       ELSE IF ~connected[getBrowsers[browserId].browser]
       THEN /\ ret' = BrowserRet("openPage", browserId, FALSE, "NotConnected")
            /\ UNCHANGED calls
       ELSE /\ CanSuspend
            /\ calls' = calls \cup {Call("openPage", "newPage", browserId, url, 0, 0)}
            /\ ret' = NoRet
    /\ UNCHANGED <<mcpBrowsers, mcpPages, connected, pageClosed,
                   nextBrowserId, nextPageId>>

\* an openPage that stores its page entry and then learns that
\* browser.newPage() threw
OpenPageNewPage_StoresFirst(c, ok) ==
    /\ c \in calls /\ c.op = "openPage" /\ c.pc = "newPage"
    /\ ok => connected[c.id]
    /\ nextPageId <= MaxPages
    /\ pageClosed' = Put(pageClosed, PageHandle(c.id, nextPageId), ~ok)
    /\ mcpPages' = Put(getPages, nextPageId,
             PageInstance(nextPageId, PageHandle(c.id, nextPageId), c.id))
    /\ nextPageId' = nextPageId + 1
    /\ IF ok /\ c.url
       THEN /\ calls' = (calls \ {c}) \cup
                          {[c EXCEPT !.pc = "goto", !.page = nextPageId]}
            /\ ret' = NoRet
       ELSE /\ calls' = calls \ {c}
            /\ ret' = IF ok
                      THEN [BrowserRet("openPage", c.id, TRUE, "")
                               EXCEPT !.pageId = nextPageId]
                      ELSE BrowserRet("openPage", c.id, FALSE, "DriverError")
    /\ UNCHANGED <<mcpBrowsers, connected, nextBrowserId>>

\* browser.newPage() resolved or threw; the page is stored with no second
\* look at the browser registry
OpenPageNewPage(c, ok) ==
    /\ c \in calls /\ c.op = "openPage" /\ c.pc = "newPage"
    /\ IF ~ok
       THEN /\ calls' = calls \ {c}
            /\ ret' = BrowserRet("openPage", c.id, FALSE, "DriverError")
            /\ UNCHANGED <<mcpPages, pageClosed, nextPageId>>
       ELSE /\ connected[c.id]
            /\ nextPageId <= MaxPages
            /\ pageClosed' = Put(pageClosed, PageHandle(c.id, nextPageId), FALSE)
            /\ mcpPages' = Put(getPages, nextPageId,
                     PageInstance(nextPageId, PageHandle(c.id, nextPageId), c.id))
            /\ nextPageId' = nextPageId + 1
            /\ IF c.url
               THEN /\ calls' = (calls \ {c}) \cup
                                  {[c EXCEPT !.pc = "goto", !.page = nextPageId]}
                    /\ ret' = NoRet
               ELSE /\ calls' = calls \ {c}
                    /\ ret' = [BrowserRet("openPage", c.id, TRUE, "")
                                  EXCEPT !.pageId = nextPageId]
    /\ UNCHANGED <<mcpBrowsers, connected, nextBrowserId>>

\* an openPage that stores its page again after page.goto
OpenPageGoto_StoresAgain(c, ok) ==
    /\ c \in calls /\ c.op = "openPage" /\ c.pc = "goto"
    /\ ok => ~pageClosed[PageHandle(c.id, c.page)]
    /\ calls' = calls \ {c}
    /\ mcpPages' = Put(getPages, c.page,
                       PageInstance(c.page, PageHandle(c.id, c.page), c.id))
    /\ ret' = [BrowserRet("openPage", c.id, TRUE, "")
                  EXCEPT !.pageId = c.page, !.warning = ~ok]
    /\ UNCHANGED <<mcpBrowsers, connected, pageClosed,
                   nextBrowserId, nextPageId>>

\* an openPage that takes its page entry back when page.goto threw
OpenPageGoto_RollsBack(c, ok) ==
    /\ c \in calls /\ c.op = "openPage" /\ c.pc = "goto"
    /\ ok => ~pageClosed[PageHandle(c.id, c.page)]
    /\ calls' = calls \ {c}
    /\ mcpPages' = IF ok THEN getPages ELSE Delete(getPages, {c.page})
    /\ ret' = [BrowserRet("openPage", c.id, TRUE, "")
                  EXCEPT !.pageId = c.page, !.warning = ~ok]
    /\ UNCHANGED <<mcpBrowsers, connected, pageClosed,
                   nextBrowserId, nextPageId>>

\* page.goto resolved or threw: success either way, a warning if it threw
OpenPageGoto(c, ok) ==
    /\ c \in calls /\ c.op = "openPage" /\ c.pc = "goto"
    /\ ok => ~pageClosed[PageHandle(c.id, c.page)]
    /\ calls' = calls \ {c}
    /\ ret' = [BrowserRet("openPage", c.id, TRUE, "")
                  EXCEPT !.pageId = c.page, !.warning = ~ok]
    /\ UNCHANGED <<mcpBrowsers, mcpPages, connected, pageClosed,
                   nextBrowserId, nextPageId>>

\* --------------------------------------------------------- closeBrowser
\* the cascade comparing the wrong field of the page entry
PagesOfBrowser_WrongField(pages, browserId) ==
    {pageId \in DOMAIN pages : pages[pageId].id = browserId}

PagesOfBrowser(pages, browserId) ==
    {pageId \in DOMAIN pages : pages[pageId].browserId = browserId}

\* close-browsers.ts lines 27-46: the cascade, the delete and the response
CloseBrowserFinish(browserId) ==
    LET cleaned == PagesOfBrowser(getPages, browserId) IN
    /\ mcpPages' = Delete(getPages, cleaned)
    /\ mcpBrowsers' = Delete(getBrowsers, {browserId})
    /\ ret' = [BrowserRet("closeBrowser", browserId, TRUE, "")
                  EXCEPT !.cleanedPagesCount = Cardinality(cleaned)]

\* close-browsers.ts up to `await browser.close()`; a browser that is not
\* connected is not closed and the handler runs to its end
CloseBrowser(browserId) ==
    /\ IF browserId \notin DOMAIN getBrowsers
       THEN /\ ret' = BrowserRet("closeBrowser", browserId, FALSE, "NotFound")
            /\ UNCHANGED <<mcpBrowsers, mcpPages, calls>>
       ELSE IF connected[getBrowsers[browserId].browser]
       THEN /\ CanSuspend
            /\ calls' = calls \cup {Call("closeBrowser", "close", browserId, FALSE, 0, 0)}
            /\ ret' = NoRet
            /\ UNCHANGED <<mcpBrowsers, mcpPages>>
       ELSE /\ CloseBrowserFinish(browserId)
            /\ UNCHANGED calls
    /\ UNCHANGED <<connected, pageClosed, nextBrowserId, nextPageId>>

\* the driver's view after a browser process is gone: every tab is closed
Disconnected(b) ==
    /\ connected' = [connected EXCEPT ![b] = FALSE]
    /\ pageClosed' = [h \in DOMAIN pageClosed |->
                        IF h.browser = b THEN TRUE ELSE pageClosed[h]]

\* a closeBrowser without the catch: an error of browser.close() is the
\* answer and the registries keep their entries
CloseBrowserClosed_Propagates(c, ok) ==
    /\ c \in calls /\ c.op = "closeBrowser" /\ c.pc = "close"
    /\ calls' = calls \ {c}
    /\ IF ok
       THEN Disconnected(c.id) /\ CloseBrowserFinish(c.id)
       ELSE /\ ret' = BrowserRet("closeBrowser", c.id, FALSE, "CloseError")
            /\ UNCHANGED <<connected, pageClosed, mcpBrowsers, mcpPages>>
    /\ UNCHANGED <<nextBrowserId, nextPageId>>

\* browser.close() resolved (the browser is gone) or threw (swallowed by the
\* empty catch; the handle is left as it was)
CloseBrowserClosed(c, ok) ==
    /\ c \in calls /\ c.op = "closeBrowser" /\ c.pc = "close"
    /\ calls' = calls \ {c}
    /\ IF ok THEN Disconnected(c.id) ELSE UNCHANGED <<connected, pageClosed>>
    /\ CloseBrowserFinish(c.id)
    /\ UNCHANGED <<nextBrowserId, nextPageId>>

\* the browser process exits or loses its connection on its own
BrowserDisconnect(b) ==
    /\ b \in DOMAIN connected /\ connected[b]
    /\ Disconnected(b)
    /\ ret' = NoRet
    /\ UNCHANGED <<mcpBrowsers, mcpPages, calls, nextBrowserId, nextPageId>>

\* ------------------------------------------------------------ closePage
\* a page that never reports itself closed
isClosed_Never(page) == FALSE

\* page.isClosed()
isClosed(page) == pageClosed[page]

\* close-page.ts: a page that is already closed is not closed again
ClosePage(pageId) ==
    /\ IF pageId \notin DOMAIN getPages
       THEN /\ ret' = BrowserRet("closePage", pageId, FALSE, "NotFound")
            /\ UNCHANGED <<mcpPages, calls>>
       ELSE IF ~isClosed(getPages[pageId].page)
       THEN /\ CanSuspend
            /\ calls' = calls \cup {Call("closePage", "close", getPages[pageId].page.browser, FALSE,
                                     pageId, getPages[pageId].page.tab)}
            /\ ret' = NoRet
            /\ UNCHANGED mcpPages
       ELSE /\ mcpPages' = Delete(getPages, {pageId})
            /\ ret' = BrowserRet("closePage", pageId, TRUE, "")
            /\ UNCHANGED calls
    /\ UNCHANGED <<mcpBrowsers, connected, pageClosed, nextBrowserId, nextPageId>>

\* page.close() resolved or threw (swallowed); the entry is deleted
ClosePageClosed(c, ok) ==
    /\ c \in calls /\ c.op = "closePage" /\ c.pc = "close"
    /\ calls' = calls \ {c}
    /\ pageClosed' = IF ok
                     THEN [pageClosed EXCEPT ![PageHandle(c.id, c.tab)] = TRUE]
                     ELSE pageClosed
    /\ mcpPages' = Delete(getPages, {c.page})
    /\ ret' = BrowserRet("closePage", c.page, TRUE, "")
    /\ UNCHANGED <<mcpBrowsers, connected, nextBrowserId, nextPageId>>

\* ------------------------------------------------------------- execPage
\* a lookup that finds every page id
PageFound_Always(pageId) == TRUE

\* exec-page.ts lines 4-7
PageFound(pageId) == pageId \in DOMAIN getPages

\* exec-page.ts lines 3-33, up to `await execFunction(page)`
ExecPage(pageId) ==
    /\ IF ~PageFound(pageId)
       THEN /\ ret' = BrowserRet("execPage", pageId, FALSE, "NotFound")
            /\ UNCHANGED calls
       ELSE IF pageId \in DOMAIN getPages /\ isClosed(getPages[pageId].page)
       THEN /\ ret' = BrowserRet("execPage", pageId, FALSE, "PageClosed")
            /\ UNCHANGED calls
       ELSE /\ CanSuspend
            /\ calls' = calls \cup {Call("execPage", "exec", 0, FALSE, pageId, 0)}
            /\ ret' = NoRet
    /\ UNCHANGED <<mcpBrowsers, mcpPages, connected, pageClosed, nextBrowserId,
                   nextPageId>>

\* exec-page.ts lines 33-50: the source resolved or threw; the sources
\* explored read the page and leave the page and the registries alone
ExecPageDone(c, ok) ==
    /\ c \in calls /\ c.op = "execPage" /\ c.pc = "exec"
    /\ calls' = calls \ {c}
    /\ ret' = BrowserRet("execPage", c.page, ok, IF ok THEN "" ELSE "ExecError")
    /\ UNCHANGED <<mcpBrowsers, mcpPages, connected, pageClosed, nextBrowserId,
                   nextPageId>>

\* ------------------------------------- generateBrowserId, generatePageId
\* browser-instances.ts lines 20-29: the ids are four random words, and
\* nothing looks a new id up in the registry; in IdSpec the next id of a
\* generator is any id, fresh or not
DrawBrowserId(id) ==
    /\ nextBrowserId' = id
    /\ ret' = NoRet
    /\ UNCHANGED <<mcpBrowsers, mcpPages, connected, pageClosed, calls, nextPageId>>

DrawPageId(id) ==
    /\ nextPageId' = id
    /\ ret' = NoRet
    /\ UNCHANGED <<mcpBrowsers, mcpPages, connected, pageClosed, calls,
                   nextBrowserId>>

\* ------------------------------------------------ listBrowsers, listPages
\* the async callbacks of browserIds.map / pageIds.map that a listing has
\* started: one suspended call per id, whose pc is its outcome once its
\* queries have settled
ListItems(op) == {c \in calls : c.op = op}

ListItem(op, pc, browserId, pageId) ==
    [op |-> op, pc |-> pc, id |-> browserId, url |-> FALSE, page |-> pageId,
     tab |-> 0, n |-> 0]

\* how the queries of one item end: all succeed, a title() rejects, or
\* something throws into the catch block of the item
ListOutcomes == {"ok", "titleFailed", "threw"}

\* the entry an item returns: `page.title().catch(() => "Untitled")` keeps
\* the entry and fills the title in, the catch block returns the marker
\* with the `error` field
ListEntry(outcome) ==
    CASE outcome = "ok" -> "entry"
      [] outcome = "titleFailed" -> "entry titled Untitled"
      [] outcome = "threw" -> "error marker"

\* a listing that leaves out the entries whose query threw
ListAnswer_DropsFailed(op, entries) ==
    [BrowserRet(op, 0, TRUE, "") EXCEPT
        !.listed = [k \in {j \in DOMAIN entries : entries[j] # "error marker"}
                       |-> entries[k]]]

\* JSON.stringify({success: true, browsers | pages: [...]}): the entry of
\* every id
ListAnswer(op, entries) ==
    [BrowserRet(op, 0, TRUE, "") EXCEPT !.listed = entries]

\* list-browsers.ts lines 21-41: the ids are read once, and every callback
\* runs up to its `await browser.pages()`; one listing at a time is explored
ListBrowsers ==
    /\ ListItems("listBrowsers") = {}
    /\ IF DOMAIN getBrowsers = {}
       THEN /\ ret' = ListAnswer("listBrowsers", <<>>)
            /\ UNCHANGED calls
       ELSE /\ calls' = calls \cup
                   {ListItem("listBrowsers", "pages", b, 0) : b \in DOMAIN getBrowsers}
            /\ ret' = NoRet
    /\ UNCHANGED <<mcpBrowsers, mcpPages, connected, pageClosed,
                   nextBrowserId, nextPageId>>

\* list-browsers.ts lines 41-80: the queries of one browser settle
\* (browser.pages(), then the title of every tab), with the entry or with
\* the error marker of the inner catch; when it was the last one,
\* Promise.all resolves and the listing is answered
ListBrowsersItem(c, outcome) ==
    /\ c \in calls /\ c.op = "listBrowsers" /\ c.pc = "pages"
    /\ outcome \in ListOutcomes
    /\ LET settled == [c EXCEPT !.pc = outcome]
           items == (ListItems("listBrowsers") \ {c}) \cup {settled}
       IN  IF \E i \in items : i.pc = "pages"
           THEN /\ calls' = (calls \ {c}) \cup {settled}
                /\ ret' = NoRet
           ELSE /\ calls' = calls \ ListItems("listBrowsers")
                /\ ret' = ListAnswer("listBrowsers",
                              [b \in {i.id : i \in items} |->
                                  ListEntry((CHOOSE i \in items : i.id = b).pc)])
    /\ UNCHANGED <<mcpBrowsers, mcpPages, connected, pageClosed,
                   nextBrowserId, nextPageId>>

\* listPages (part_008 lines 105-130): the ids are read once, and every
\* callback runs up to its `await page.title()`
ListPages ==
    /\ ListItems("listPages") = {}
    /\ IF DOMAIN getPages = {}
       THEN /\ ret' = ListAnswer("listPages", <<>>)
            /\ UNCHANGED calls
       ELSE /\ calls' = calls \cup
                   {ListItem("listPages", "title", getPages[p].browserId, p) :
                       p \in DOMAIN getPages}
            /\ ret' = NoRet
    /\ UNCHANGED <<mcpBrowsers, mcpPages, connected, pageClosed,
                   nextBrowserId, nextPageId>>

\* part_008 lines 122-160: the queries of one page settle (url(), title(),
\* isClosed()), with the entry or with the error marker of the catch; the
\* last one answers the listing
ListPagesItem(c, outcome) ==
    /\ c \in calls /\ c.op = "listPages" /\ c.pc = "title"
    /\ outcome \in ListOutcomes
    /\ LET settled == [c EXCEPT !.pc = outcome]
           items == (ListItems("listPages") \ {c}) \cup {settled}
       IN  IF \E i \in items : i.pc = "title"
           THEN /\ calls' = (calls \ {c}) \cup {settled}
                /\ ret' = NoRet
           ELSE /\ calls' = calls \ ListItems("listPages")
                /\ ret' = ListAnswer("listPages",
                              [p \in {i.page : i \in items} |->
                                  ListEntry((CHOOSE i \in items : i.page = p).pc)])
    /\ UNCHANGED <<mcpBrowsers, mcpPages, connected, pageClosed,
                   nextBrowserId, nextPageId>>

\* ------------------------------------------------- the puppeteer tools
BrowserInit ==
    /\ mcpBrowsers = <<>>
    /\ mcpPages = <<>>
    /\ connected = <<>>
    /\ pageClosed = <<>>
    /\ calls = {}
    /\ nextBrowserId = 1
    /\ nextPageId = 1

BrowserNext ==
    \/ \E url \in BOOLEAN : LaunchBrowser(url) /\ UNCHANGED svars
    \/ \E c \in calls, ok \in BOOLEAN : LaunchBrowserLaunched(c, ok) /\ UNCHANGED svars
    \/ \E c \in calls, o \in {"throw", "empty", "page"} : LaunchBrowserPages(c, o) /\ UNCHANGED svars
    \/ \E c \in calls, ok \in BOOLEAN : LaunchBrowserGoto(c, ok) /\ UNCHANGED svars
    \/ \E b \in 1..MaxBrowsers, url \in BOOLEAN : OpenPage(b, url) /\ UNCHANGED svars
    \/ \E c \in calls, ok \in BOOLEAN : OpenPageNewPage(c, ok) /\ UNCHANGED svars
    \/ \E c \in calls, ok \in BOOLEAN : OpenPageGoto(c, ok) /\ UNCHANGED svars
    \/ \E b \in 1..MaxBrowsers : CloseBrowser(b) /\ UNCHANGED svars
    \/ \E c \in calls, ok \in BOOLEAN : CloseBrowserClosed(c, ok) /\ UNCHANGED svars
    \/ \E b \in 1..MaxBrowsers : BrowserDisconnect(b) /\ UNCHANGED svars
    \/ \E p \in 1..MaxPages : ClosePage(p) /\ UNCHANGED svars
    \/ \E c \in calls, ok \in BOOLEAN : ClosePageClosed(c, ok) /\ UNCHANGED svars

\* ======================================================== socket store
\* ---------------------------------------------------------------- urls
\* a url is the sequence of its characters
WsUrl == <<"w", "s", ":", "/", "/", "h">>

WssUrl == <<"w", "s", "s", ":", "/", "/", "h">>

Urls == {WsUrl, WssUrl,
         <<"h", "t", "t", "p", ":", "/", "/", "h">>,
         <<"w", "s", ":", "/", "h">>,
         <<"w", "s", "s", "/", "/", "h">>,
         <<>>}

\* String.prototype.startsWith
StartsWith(str, prefix) ==
    /\ Len(str) >= Len(prefix)
    /\ SubSeq(str, 1, Len(prefix)) = prefix

\* a validation that looks at the letters of the scheme only
ValidUrl_SchemeLettersOnly(url) ==
    StartsWith(url, <<"w", "s">>)

\* connect.ts line 35, negated
ValidUrl(url) ==
    StartsWith(url, <<"w", "s", ":", "/", "/">>)
        \/ StartsWith(url, <<"w", "s", "s", ":", "/", "/">>)

\* ------------------------------------------------------------- configs
SocketConfig(autoReconnect, maxReconnectAttempts, reconnectInterval, messageHistoryLimit) ==
    [autoReconnect |-> autoReconnect,
     maxReconnectAttempts |-> maxReconnectAttempts,
     reconnectInterval |-> reconnectInterval,
     messageHistoryLimit |-> messageHistoryLimit]

\* ------------------------------------------------ socket-instances.ts
\* readyState of a WebSocket
CONNECTING == 0
OPEN == 1
CLOSING == 2
CLOSED == 3

Message(id, type, data, timestamp) ==
    [id |-> id, type |-> type, data |-> data, timestamp |-> timestamp]

\* connect.ts lines 54-71
SocketInstance(id, socket, url, config) ==
    [id |-> id, socket |-> socket, url |-> url, createdAt |-> now,
     status |-> "connecting", messageQueue |-> <<>>, config |-> config,
     reconnectAttempts |-> 0, lastActivity |-> now]

\* Array.prototype.splice(0, removeCount)
Splice(queue, removeCount) == SubSeq(queue, removeCount + 1, Len(queue))

\* JavaScript truthiness of a number
Truthy(n) == n # 0

\* socket-instances.ts lines 77-82
EnforceLimit(queue, limit) ==
    IF Truthy(limit) /\ Len(queue) > limit
    THEN Splice(queue, Len(queue) - limit)
    ELSE queue

\* an addMessage that appends to the queue of every session of the store
addMessage_All(insts, socketId, message) ==
    [i \in DOMAIN insts |->
        IF i \in sockets
        THEN [insts[i] EXCEPT !.messageQueue = EnforceLimit(Append(@, message),
                                         insts[i].config.messageHistoryLimit),
                              !.lastActivity = now]
        ELSE insts[i]]

\* an addMessage that puts the message at the head of the queue
addMessage_Unshift(insts, socketId, message) ==
    IF socketId \notin sockets
    THEN insts
    ELSE [insts EXCEPT ![socketId] =
             [@ EXCEPT !.messageQueue = EnforceLimit(<<message>> \o @,
                                            insts[socketId].config.messageHistoryLimit),
                       !.lastActivity = now]]

\* socket-instances.ts lines 71-84, on the instance objects `insts`
addMessage(insts, socketId, message) ==
    IF socketId \notin sockets
    THEN insts
    ELSE [insts EXCEPT ![socketId] =
             [@ EXCEPT !.messageQueue = EnforceLimit(Append(@, message),
                                            insts[socketId].config.messageHistoryLimit),
                       !.lastActivity = now]]

\* a removeSocket that leaves the entry in the store
removeSocket_Keeps(store, id) == store

\* socket-instances.ts lines 66-68
removeSocket(store, id) == store \ {id}

\* socket-instances.ts lines 87-93
updateSocketStatus(insts, socketId, status) ==
    IF socketId \notin sockets
    THEN insts
    ELSE [insts EXCEPT ![socketId] =
             [@ EXCEPT !.status = status, !.lastActivity = now]]

\* a sweep that deletes every session that is not open
cleanupClosedSockets_NotOpen ==
    {id \in sockets : instances[id].status # "open"}

\* a sweep that deletes nothing
cleanupClosedSockets_None == {}

\* socket-instances.ts lines 138-145: the ids the sweep deletes
cleanupClosedSockets ==
    {id \in sockets : instances[id].status = "closed"
                        /\ ws[instances[id].socket].readyState = CLOSED}

\* generateMessageId: ids are random words, modelled as an id that no
\* message of a queue and no send in flight carries
UsedMessageIds ==
    UNION {{instances[i].messageQueue[k].id : k \in DOMAIN instances[i].messageQueue} :
              i \in DOMAIN instances}
        \cup {p.messageId : p \in sending}

FreshId(used) ==
    CHOOSE n \in 1..(Cardinality(used) + 1) :
        n \notin used /\ \A m \in 1..(n - 1) : m \in used

generateMessageId == FreshId(UsedMessageIds)

\* the id of a second message made in the same callback
generateMessageId2 == FreshId(UsedMessageIds \cup {generateMessageId})

\* ------------------------------------------------------------ responses
\* the `since` parameter: absent, a string Date cannot parse, or the ISO
\* string of a clock reading
NoSince == [kind |-> "absent", ms |-> 0]

InvalidSince == [kind |-> "invalid", ms |-> 0]

IsoSince(t) == [kind |-> "iso", ms |-> t]

Sinces == {NoSince, InvalidSince} \cup {IsoSince(t) : t \in 0..MaxTime}

SocketRet(op, id, success, error) ==
    [op |-> op, id |-> id, success |-> success, error |-> error,
     messages |-> <<>>, messageId |-> 0, listed |-> <<>>,
     action |-> "", since |-> NoSince, status |-> "", cleared |-> "absent"]

\* ------------------------------------------ event handlers of a socket
\* an 'open' handler that leaves the attempt counter as it is
OnOpen_KeepsAttempts(insts, socketId, event) ==
    addMessage(updateSocketStatus(insts, socketId, "open"), socketId,
               Message(generateMessageId, "received", event, now))

\* connect.ts lines 77-89 and 196-211: the 'open' handler
OnOpen(insts, socketId, event) ==
    LET opened == updateSocketStatus(insts, socketId, "open")
        reset == [opened EXCEPT ![socketId].reconnectAttempts = 0]
    IN  addMessage(reset, socketId, Message(generateMessageId, "received", event, now))

\* connect.ts lines 91-99 and 213-221: the 'message' handler
OnMessage(insts, socketId) ==
    addMessage(insts, socketId, Message(generateMessageId, "received", "data", now))

\* connect.ts lines 101-113 and 223-235: the 'error' handler
OnError(insts, socketId, msgId) ==
    addMessage(insts, socketId, Message(msgId, "received", "error", now))

\* a close handler that allows one attempt too many
ShouldReconnect_OffByOne(inst) ==
    /\ inst.config.autoReconnect
    /\ inst.reconnectAttempts <= inst.config.maxReconnectAttempts

\* a close handler that does not look at autoReconnect
ShouldReconnect_AnyConfig(inst) ==
    inst.reconnectAttempts < inst.config.maxReconnectAttempts

\* connect.ts lines 132 and 254-255
ShouldReconnect(inst) ==
    /\ inst.config.autoReconnect
    /\ inst.reconnectAttempts < inst.config.maxReconnectAttempts

\* Math.pow(2, n)
RECURSIVE Pow2(_)
Pow2(n) == IF n <= 0 THEN 1 ELSE 2 * Pow2(n - 1)

\* a delay computed from the counter as it was before the increment
Delay_BeforeIncrement(reconnectInterval, attempts) ==
    reconnectInterval * Pow2(attempts - 2)

\* connect.ts lines 134 and 257-258
Delay(reconnectInterval, attempts) ==
    reconnectInterval * Pow2(attempts - 1)

\* a close handler that counts every close, reconnecting or not
OnClose_CountsEveryClose(insts, socketId, msgId) ==
    LET closed == updateSocketStatus(insts, socketId, "closed")
        logged == addMessage(closed, socketId,
                             Message(msgId, "received", "disconnected", now))
    IN  [logged EXCEPT ![socketId].reconnectAttempts = @ + 1]

\* connect.ts lines 115-134 and 237-258: the 'close' handler up to setTimeout
OnClose(insts, socketId, msgId) ==
    LET closed == updateSocketStatus(insts, socketId, "closed")
        logged == addMessage(closed, socketId,
                             Message(msgId, "received", "disconnected", now))
    IN  IF ShouldReconnect(logged[socketId])
        THEN [logged EXCEPT ![socketId].reconnectAttempts = @ + 1]
        ELSE logged

\* connect.ts lines 136-141 and 260-265: the timer the 'close' handler of
\* WebSocket h sets, if it sets one
OnCloseTimers(insts, socketId, h) ==
    IF ShouldReconnect(insts[socketId])
    THEN {[socketId |-> socketId, h |-> h,
           delay |-> Delay(insts[socketId].config.reconnectInterval,
                           insts[socketId].reconnectAttempts + 1)]}
    ELSE {}

\* ---------------------------------------------------------- connectSocket
\* new WebSocket(url, protocols, options); reconnect tells which of the two
\* handler sets of connect.ts is bound to it
NewWebSocket(socketId, reconnect) ==
    [socketId |-> socketId, readyState |-> CONNECTING, opened |-> FALSE,
     reconnect |-> reconnect]

nextConn == Len(ws) + 1

\* generateSocketId: ids are random words, modelled as never repeating
nextSocketId == Len(instances) + 1

\* connect.ts lines 23-181 up to the returned promise
ConnectSocket(url, config) ==
    /\ IF ~ValidUrl(url)
       THEN /\ ret' = SocketRet("connect", 0, FALSE, "InvalidURL")
            /\ UNCHANGED <<sockets, instances, ws, connecting>>
       ELSE /\ ws' = Append(ws, NewWebSocket(nextSocketId, FALSE))
            /\ instances' = Append(instances,
                     SocketInstance(nextSocketId, nextConn, url, config))
            /\ sockets' = sockets \cup {nextSocketId}
            /\ connecting' = connecting \cup {[socketId |-> nextSocketId, h |-> nextConn]}
            /\ ret' = NoRet
    /\ UNCHANGED <<timers, sending, closing, now>>

\* a connect timeout that takes the session out of the store
ConnectTimeout_RollsBack(c) ==
    /\ c \in connecting
    /\ connecting' = connecting \ {c}
    /\ sockets' = removeSocket(sockets, c.socketId)
    /\ ret' = SocketRet("connect", c.socketId, FALSE, "Timeout")
    /\ UNCHANGED <<instances, ws, timers, sending, closing, now>>

\* connect.ts lines 147-154: the 10 s timer of the connect promise
ConnectTimeout(c) ==
    /\ c \in connecting
    /\ connecting' = connecting \ {c}
    /\ ret' = SocketRet("connect", c.socketId, FALSE, "Timeout")
    /\ UNCHANGED <<sockets, instances, ws, timers, sending, closing, now>>

\* a promise that answers at every 'open' or 'error', resolved or not
ResolveConnect_Again(h, success, error, otherwise) ==
    LET c == [socketId |-> ws[h].socketId, h |-> h] IN
    /\ connecting' = connecting \ {c}
    /\ ret' = IF ~ws[h].reconnect
              THEN SocketRet("connect", c.socketId, success, error)
              ELSE otherwise

\* the promise of connectSocket, resolved by the first 'open' or 'error'
ResolveConnect(h, success, error, otherwise) ==
    LET c == [socketId |-> ws[h].socketId, h |-> h] IN
    /\ connecting' = connecting \ {c}
    /\ ret' = IF c \in connecting
              THEN SocketRet("connect", c.socketId, success, error)
              ELSE otherwise

\* the close listeners closeSocket put on WebSocket h (part_010 lines 55-68)
CloseListeners(h) == {c \in closing : c.h = h /\ c.listener}

\* part_010 lines 55-65: closeHandler runs for every listener on h; the 5 s
\* timer is not cleared
RunCloseHandlers(h) ==
    closing' = (closing \ CloseListeners(h)) \cup
               {[c EXCEPT !.listener = FALSE, !.resolved = TRUE] :
                   c \in {d \in CloseListeners(h) : d.timeout}}

CloseResolved(h) == \E c \in CloseListeners(h) : ~c.resolved

\* the 'open' event of WebSocket h
WsOpen(h) ==
    /\ h \in DOMAIN ws /\ ws[h].readyState = CONNECTING
    /\ ws' = [ws EXCEPT ![h].readyState = OPEN, ![h].opened = TRUE]
    /\ instances' = OnOpen(instances, ws[h].socketId,
                           IF ws[h].reconnect THEN "reconnected" ELSE "connected")
    /\ ResolveConnect(h, TRUE, "", NoRet)
    /\ UNCHANGED <<sockets, timers, sending, closing, now>>

\* the 'message' event of WebSocket h
WsMessage(h) ==
    /\ h \in DOMAIN ws /\ ws[h].readyState = OPEN
    /\ instances' = OnMessage(instances, ws[h].socketId)
    /\ ret' = NoRet
    /\ UNCHANGED <<sockets, ws, timers, connecting, sending, closing, now>>

\* an 'error' event of an open WebSocket h: ws starts closing it
WsError(h) ==
    /\ h \in DOMAIN ws /\ ws[h].readyState = OPEN
    /\ ws' = [ws EXCEPT ![h].readyState = CLOSING]
    /\ instances' = OnError(instances, ws[h].socketId, generateMessageId)
    /\ ret' = NoRet
    /\ UNCHANGED <<sockets, timers, connecting, sending, closing, now>>

\* a close frame that already marks the session closed
WsPeerClosing_MarksClosed(h) ==
    /\ h \in DOMAIN ws /\ ws[h].readyState = OPEN
    /\ ws' = [ws EXCEPT ![h].readyState = CLOSING]
    /\ instances' = updateSocketStatus(instances, ws[h].socketId, "closed")
    /\ ret' = NoRet
    /\ UNCHANGED <<sockets, timers, connecting, sending, closing, now>>

\* the peer's close frame arrives: readyState is CLOSING until 'close'
WsPeerClosing(h) ==
    /\ h \in DOMAIN ws /\ ws[h].readyState = OPEN
    /\ ws' = [ws EXCEPT ![h].readyState = CLOSING]
    /\ ret' = NoRet
    /\ UNCHANGED <<sockets, instances, timers, connecting, sending, closing,
                   now>>

\* closeHandlers that leave the session in the store
AfterCloseHandlers_Keeps(h) == sockets

\* a 'close' event that takes the session out of the store by itself
AfterCloseHandlers_Always(h) == removeSocket(sockets, ws[h].socketId)

\* the session leaves the store if a closeHandler runs (part_010 line 56)
AfterCloseHandlers(h) ==
    IF CloseListeners(h) # {} THEN removeSocket(sockets, ws[h].socketId) ELSE sockets

\* the 'close' event of a WebSocket that had opened: the handler of
\* connect.ts, then the closeHandler of every pending closeSocket
WsClose(h) ==
    /\ h \in DOMAIN ws /\ ws[h].opened /\ ws[h].readyState \in {OPEN, CLOSING}
    /\ ws' = [ws EXCEPT ![h].readyState = CLOSED]
    /\ instances' = OnClose(instances, ws[h].socketId, generateMessageId)
    /\ timers' = timers \cup OnCloseTimers(instances, ws[h].socketId, h)
    /\ sockets' = AfterCloseHandlers(h)
    /\ RunCloseHandlers(h)
    /\ ret' = IF CloseResolved(h)
              THEN SocketRet("close", ws[h].socketId, TRUE, "")
              ELSE NoRet
    /\ UNCHANGED <<connecting, sending, now>>

\* a WebSocket that never opened fails: ws emits 'error', then 'close'
WsFail(h) ==
    /\ h \in DOMAIN ws /\ ~ws[h].opened /\ ws[h].readyState \in {CONNECTING, CLOSING}
    /\ ws' = [ws EXCEPT ![h].readyState = CLOSED]
    /\ instances' = OnClose(OnError(instances, ws[h].socketId, generateMessageId),
                            ws[h].socketId, generateMessageId2)
    /\ timers' = timers \cup OnCloseTimers(instances, ws[h].socketId, h)
    /\ sockets' = AfterCloseHandlers(h)
    /\ RunCloseHandlers(h)
    /\ ResolveConnect(h, FALSE, "ConnectionError", NoRet)
    /\ UNCHANGED <<sending, now>>

\* ------------------------------------------------ reconnectSocketInstance
\* connect.ts lines 136-141 / 260-265: the timer callback, and lines 185-193
\* a timer callback that does not look the session up in the store
StillClosed_NoLookup(socketId) ==
    instances[socketId].status = "closed"

\* connect.ts lines 137-138 and 261-262
StillClosed(socketId) ==
    socketId \in sockets /\ instances[socketId].status = "closed"

\* a timer callback that builds the session anew, as connect does
TimerFire_FreshSession(t) ==
    /\ t \in timers
    /\ timers' = timers \ {t}
    /\ IF StillClosed(t.socketId)
       THEN /\ ws' = Append(ws, NewWebSocket(t.socketId, TRUE))
            /\ instances' = [instances EXCEPT ![t.socketId] =
                   SocketInstance(t.socketId, nextConn, @.url, @.config)]
       ELSE UNCHANGED <<ws, instances>>
    /\ ret' = NoRet
    /\ UNCHANGED <<sockets, connecting, sending, closing, now>>

TimerFire(t) ==
    /\ t \in timers
    /\ timers' = timers \ {t}
    /\ IF StillClosed(t.socketId)
       THEN /\ ws' = Append(ws, NewWebSocket(t.socketId, TRUE))
            /\ instances' = updateSocketStatus(
                   [instances EXCEPT ![t.socketId].socket = nextConn],
                   t.socketId, "connecting")
       ELSE UNCHANGED <<ws, instances>>
    /\ ret' = NoRet
    /\ UNCHANGED <<sockets, connecting, sending, closing, now>>

\* ------------------------------------------------------------ sendMessage
\* a ready-state check that lets every socket through
ReadyStateOpen_Always(inst) == TRUE

\* a ready-state check that stops only a closed socket
ReadyStateOpen_NotClosed(inst) == ws[inst.socket].readyState # CLOSED

\* send.ts line 38, negated
ReadyStateOpen(inst) == ws[inst.socket].readyState = OPEN

\* send.ts lines 15-67: the checks and the write, with no await between
SendMessage(socketId) ==
    /\ IF socketId \notin sockets
       THEN /\ ret' = SocketRet("send", socketId, FALSE, "NotFound")
            /\ UNCHANGED <<sending>>
       ELSE IF instances[socketId].status # "open"
       THEN /\ ret' = SocketRet("send", socketId, FALSE, "NotOpen")
            /\ UNCHANGED <<sending>>
       ELSE IF ~ReadyStateOpen(instances[socketId])
       THEN /\ ret' = SocketRet("send", socketId, FALSE, "NotOpenState")
            /\ UNCHANGED <<sending>>
       ELSE /\ sending' = sending \cup
                   {[socketId |-> socketId, h |-> instances[socketId].socket,
                     messageId |-> generateMessageId]}
                    /\ ret' = NoRet
    /\ UNCHANGED <<sockets, instances, ws, timers, connecting, closing, now>>

\* send.ts lines 67-100: the callback of socket.send
SendCallback(p, error) ==
    /\ p \in sending
    /\ sending' = sending \ {p}
    /\ IF error
       THEN /\ ret' = [SocketRet("send", p.socketId, FALSE, "SendError")
                          EXCEPT !.messageId = p.messageId]
            /\ UNCHANGED instances
       ELSE /\ instances' = addMessage(instances, p.socketId,
                                Message(p.messageId, "sent", "data", now))
            /\ ret' = [SocketRet("send", p.socketId, TRUE, "")
                          EXCEPT !.messageId = p.messageId]
    /\ UNCHANGED <<sockets, ws, timers, connecting, closing, now>>

\* --------------------------------------------------------- receiveMessages
\* a slice that takes the first n entries
SliceLast_First(queue, n) ==
    IF Len(queue) <= n THEN queue ELSE SubSeq(queue, 1, n)

\* Array.prototype.slice(-n)
SliceLast(queue, n) ==
    IF Len(queue) <= n THEN queue ELSE SubSeq(queue, Len(queue) - n + 1, Len(queue))

\* a comparison that also returns the messages stamped exactly `since`
After_Inclusive(timestamp, since) ==
    since.kind = "iso" /\ timestamp >= since.ms

\* msg.timestamp.getTime() > new Date(since).getTime(): false against NaN
After(timestamp, since) ==
    since.kind = "iso" /\ timestamp > since.ms

\* Array.prototype.filter with the predicate of socket-instances.ts
\* lines 121-123
RECURSIVE FilterSince(_, _)
FilterSince(queue, since) ==
    IF queue = <<>>
    THEN <<>>
    ELSE (IF After(Head(queue).timestamp, since) THEN <<Head(queue)>> ELSE <<>>)
             \o FilterSince(Tail(queue), since)

\* socket-instances.ts lines 96-135: the messages returned
getMessages(inst, action, since) ==
    CASE action = "get-latest" -> SliceLast(inst.messageQueue, LatestCount)
      [] action = "get-all" -> inst.messageQueue
      [] action = "get-since" ->
            IF since.kind # "absent"
            THEN FilterSince(inst.messageQueue, since)
            ELSE inst.messageQueue

\* a clear that does not look at the action
ShouldClear_AnyAction(action, clearAfterRead) == clearAfterRead

\* socket-instances.ts line 130
ShouldClear(action, clearAfterRead) == clearAfterRead /\ action = "get-all"

\* receive.ts lines 13-66
ReceiveMessages(socketId, action, since, clearAfterRead) ==
    /\ IF socketId \notin sockets
       THEN /\ ret' = SocketRet("receive", socketId, FALSE, "NotFound")
            /\ UNCHANGED instances
       ELSE IF action = "get-since" /\ since.kind = "absent"
       THEN /\ ret' = SocketRet("receive", socketId, FALSE, "MissingParameter")
            /\ UNCHANGED instances
       ELSE /\ ret' = [SocketRet("receive", socketId, TRUE, "") EXCEPT
                          !.messages = getMessages(instances[socketId], action, since),
                          !.action = action,
                          !.status = instances[socketId].status,
                          !.cleared = IF ~clearAfterRead THEN "absent"
                                      ELSE IF action = "get-all" THEN "true"
                                      ELSE "false",
                          !.since = IF action = "get-since" THEN since ELSE NoSince]
            /\ instances' = IF ShouldClear(action, clearAfterRead)
                            THEN [instances EXCEPT ![socketId].messageQueue = <<>>]
                            ELSE instances
    /\ UNCHANGED <<sockets, ws, timers, connecting, sending, closing, now>>

\* ------------------------------------------------------------ closeSocket
\* socket.terminate(): a socket that is not closed is destroyed and emits
\* 'close' later
Terminate(sock, h) ==
    IF sock[h].readyState = CLOSED
    THEN sock
    ELSE [sock EXCEPT ![h].readyState = CLOSING]

\* part_010 lines 14-130 up to the returned promise; codeOk is whether
\* socket.close(code, reason) accepts the code and reason
CloseSocket(socketId, codeOk) ==
    /\ IF socketId \notin sockets
       THEN /\ ret' = SocketRet("close", socketId, FALSE, "NotFound")
            /\ UNCHANGED <<sockets, instances, ws, closing>>
       ELSE LET h == instances[socketId].socket
                c == [socketId |-> socketId, h |-> h, listener |-> TRUE,
                      timeout |-> TRUE, resolved |-> FALSE]
            IN
            /\ instances' = updateSocketStatus(instances, socketId, "closing")
            /\ CASE ws[h].readyState = CLOSED ->
                      /\ sockets' = removeSocket(sockets, socketId)
                      /\ ret' = SocketRet("close", socketId, TRUE, "")
                      /\ UNCHANGED <<ws, closing>>
                 [] ws[h].readyState = OPEN /\ codeOk ->
                      /\ ws' = [ws EXCEPT ![h].readyState = CLOSING]
                      /\ closing' = closing \cup {c}
                      /\ ret' = NoRet
                      /\ UNCHANGED sockets
                 [] ws[h].readyState = OPEN /\ ~codeOk ->
                      /\ ws' = Terminate(ws, h)
                      /\ sockets' = removeSocket(sockets, socketId)
                      /\ ret' = SocketRet("close", socketId, TRUE, "CloseError")
                      /\ UNCHANGED closing
                 [] ws[h].readyState = CONNECTING ->
                      /\ ws' = Terminate(ws, h)
                      /\ sockets' = removeSocket(sockets, socketId)
                      /\ closing' = closing \cup
                             {[c EXCEPT !.timeout = FALSE, !.resolved = TRUE]}
                      /\ ret' = SocketRet("close", socketId, TRUE, "")
                 [] ws[h].readyState = CLOSING ->
                      /\ closing' = closing \cup {c}
                      /\ ret' = NoRet
                      /\ UNCHANGED <<sockets, ws>>
    /\ UNCHANGED <<timers, connecting, sending, now>>

\* part_010 lines 71-90: the 5 s timer of closeSocket
CloseTimeout(c) ==
    /\ c \in closing /\ c.timeout
    /\ closing' = closing \ {c}
    /\ ws' = Terminate(ws, c.h)
    /\ sockets' = removeSocket(sockets, c.socketId)
    /\ ret' = IF c.resolved THEN NoRet
              ELSE SocketRet("close", c.socketId, TRUE, "")
    /\ UNCHANGED <<instances, timers, connecting, sending, now>>

\* ------------------------------------------------------------ listSockets
\* list.ts lines 6-63: the sweep, then the listing of what is left
ListSockets ==
    /\ sockets' = sockets \ cleanupClosedSockets
    /\ ret' = [SocketRet("list", 0, TRUE, "") EXCEPT
                  !.listed = [id \in sockets \ cleanupClosedSockets |->
                                 instances[id].status]]
    /\ UNCHANGED <<instances, ws, timers, connecting, sending, closing, now>>

\* ------------------------------------------------------------------ clock
Tick ==
    /\ now' = now + 1
    /\ ret' = NoRet
    /\ UNCHANGED <<sockets, instances, ws, timers, connecting, sending,
                   closing>>

\* ------------------------------------------------------- the socket tools
SocketInit ==
    /\ sockets = {}
    /\ instances = <<>>
    /\ ws = <<>>
    /\ timers = {}
    /\ connecting = {}
    /\ sending = {}
    /\ closing = {}
    /\ now = 0

\* what a specification explores of the socket tools
Within(maxSockets, maxConns, maxQueue, maxTime) ==
    /\ Len(instances) <= maxSockets
    /\ Len(ws) <= maxConns
    /\ \A i \in DOMAIN instances : Len(instances[i].messageQueue) <= maxQueue
    /\ Cardinality(sending) <= MaxSending
    /\ now <= maxTime

\* Spec: the life of a session, with and without autoReconnect, at one
\* clock reading and with a history limit of MaxLimit
LifeConfigs ==
    {SocketConfig(FALSE, DefaultMaxReconnectAttempts, DefaultReconnectInterval, MaxLimit)}
    \cup {SocketConfig(TRUE, 1, DefaultReconnectInterval, MaxLimit)}

LifeBounds == Within(MaxSockets, MaxConns, MaxLimit, 0)

SocketNext ==
    \/ \E config \in LifeConfigs :
          ConnectSocket(WsUrl, config) /\ LifeBounds' /\ UNCHANGED bvars
    \/ \E c \in connecting : ConnectTimeout(c) /\ UNCHANGED bvars
    \/ \E h \in DOMAIN ws : WsOpen(h) /\ UNCHANGED bvars
    \/ \E h \in DOMAIN ws : WsMessage(h) /\ UNCHANGED bvars
    \/ \E h \in DOMAIN ws : WsError(h) /\ UNCHANGED bvars
    \/ \E h \in DOMAIN ws : WsPeerClosing(h) /\ UNCHANGED bvars
    \/ \E h \in DOMAIN ws : WsClose(h) /\ UNCHANGED bvars
    \/ \E h \in DOMAIN ws : WsFail(h) /\ UNCHANGED bvars
    \/ \E t \in timers : TimerFire(t) /\ LifeBounds' /\ UNCHANGED bvars
    \/ \E id \in 1..MaxSockets : SendMessage(id) /\ LifeBounds' /\ UNCHANGED bvars
    \/ \E p \in sending, error \in BOOLEAN : SendCallback(p, error) /\ UNCHANGED bvars
    \/ \E id \in 1..MaxSockets, clearAfterRead \in BOOLEAN :
          ReceiveMessages(id, "get-all", NoSince, clearAfterRead) /\ UNCHANGED bvars
    \/ \E id \in 1..MaxSockets, codeOk \in BOOLEAN :
          CloseSocket(id, codeOk) /\ UNCHANGED bvars
    \/ \E c \in closing : CloseTimeout(c) /\ UNCHANGED bvars
    \/ ListSockets /\ UNCHANGED bvars

\* QueueSpec: the message queue of a session without autoReconnect, with
\* every history limit 0..MaxLimit, over the clock readings 0..MaxTime
QueueConfigs ==
    {SocketConfig(FALSE, DefaultMaxReconnectAttempts, DefaultReconnectInterval, l) :
        l \in 0..MaxLimit}

QueueBounds == Within(1, 1, MaxQueue, MaxTime)

QueueNext ==
    \/ \E url \in Urls, config \in QueueConfigs :
          ConnectSocket(url, config) /\ QueueBounds' /\ UNCHANGED bvars
    \/ \E h \in DOMAIN ws : WsOpen(h) /\ UNCHANGED bvars
    \/ \E h \in DOMAIN ws : WsMessage(h) /\ QueueBounds' /\ UNCHANGED bvars
    \/ \E h \in DOMAIN ws : WsError(h) /\ QueueBounds' /\ UNCHANGED bvars
    \/ \E h \in DOMAIN ws : WsClose(h) /\ QueueBounds' /\ UNCHANGED bvars
    \/ \E h \in DOMAIN ws : WsFail(h) /\ QueueBounds' /\ UNCHANGED bvars
    \/ SendMessage(1) /\ QueueBounds' /\ UNCHANGED bvars
    \/ \E p \in sending, error \in BOOLEAN :
          SendCallback(p, error) /\ QueueBounds' /\ UNCHANGED bvars
    \/ \E action \in {"get-latest", "get-all", "get-since"},
          since \in Sinces, clearAfterRead \in BOOLEAN :
            ReceiveMessages(1, action, since, clearAfterRead) /\ UNCHANGED bvars
    \/ Tick /\ QueueBounds' /\ UNCHANGED bvars

\* ReconnectSpec: the reconnections of a session with autoReconnect and
\* every maxReconnectAttempts 1..MaxAttempts, and its explicit close
ReconnectConfigs ==
    {SocketConfig(TRUE, m, DefaultReconnectInterval, 1) : m \in 1..MaxAttempts}

ReconnectBounds == Within(1, MaxReconnectConns, 1, 0)

ReconnectNext ==
    \/ \E config \in ReconnectConfigs :
          ConnectSocket(WsUrl, config) /\ ReconnectBounds' /\ UNCHANGED bvars
    \/ \E h \in DOMAIN ws : WsOpen(h) /\ UNCHANGED bvars
    \/ \E h \in DOMAIN ws : WsPeerClosing(h) /\ UNCHANGED bvars
    \/ \E h \in DOMAIN ws : WsClose(h) /\ UNCHANGED bvars
    \/ \E h \in DOMAIN ws : WsFail(h) /\ UNCHANGED bvars
    \/ \E t \in timers : TimerFire(t) /\ ReconnectBounds' /\ UNCHANGED bvars
    \/ \E codeOk \in BOOLEAN : CloseSocket(1, codeOk) /\ UNCHANGED bvars
    \/ \E c \in closing : CloseTimeout(c) /\ UNCHANGED bvars
    \/ ListSockets /\ UNCHANGED bvars

\* AttemptsSpec: ReconnectSpec over every number the schema of
\* socket-connect lets through as maxReconnectAttempts (z.number(), no
\* minimum): the values of ReconnectSpec, zero and a negative one
AttemptsConfigs ==
    ReconnectConfigs
        \cup {SocketConfig(TRUE, m, DefaultReconnectInterval, 1) : m \in {-1, 0}}

AttemptsNext ==
    \/ \E config \in AttemptsConfigs :
          ConnectSocket(WsUrl, config) /\ ReconnectBounds' /\ UNCHANGED bvars
    \/ \E h \in DOMAIN ws : WsOpen(h) /\ UNCHANGED bvars
    \/ \E h \in DOMAIN ws : WsPeerClosing(h) /\ UNCHANGED bvars
    \/ \E h \in DOMAIN ws : WsClose(h) /\ UNCHANGED bvars
    \/ \E h \in DOMAIN ws : WsFail(h) /\ UNCHANGED bvars
    \/ \E t \in timers : TimerFire(t) /\ ReconnectBounds' /\ UNCHANGED bvars
    \/ \E codeOk \in BOOLEAN : CloseSocket(1, codeOk) /\ UNCHANGED bvars
    \/ \E c \in closing : CloseTimeout(c) /\ UNCHANGED bvars
    \/ ListSockets /\ UNCHANGED bvars

\* AutoSpec: a session with autoReconnect on which no close call is made,
\* with the send, receive and list calls of its client. A WebSocket closes
\* only if the reconnection its close may schedule is within MaxAutoConns.
AutoConfigs ==
    {SocketConfig(TRUE, m, DefaultReconnectInterval, 1) : m \in 1..MaxAutoAttempts}

AutoBounds == Within(1, MaxAutoConns, 1, 0)

AutoTimer == (\E t \in timers : TimerFire(t)) /\ UNCHANGED bvars

AutoNext ==
    \/ \E config \in AutoConfigs :
          ConnectSocket(WsUrl, config) /\ AutoBounds' /\ UNCHANGED bvars
    \/ \E h \in DOMAIN ws : WsOpen(h) /\ UNCHANGED bvars
    \/ \E h \in DOMAIN ws : WsMessage(h) /\ UNCHANGED bvars
    \/ \E h \in DOMAIN ws : WsClose(h) /\ Len(ws) < MaxAutoConns /\ UNCHANGED bvars
    \/ \E h \in DOMAIN ws : WsFail(h) /\ Len(ws) < MaxAutoConns /\ UNCHANGED bvars
    \/ AutoTimer
    \/ SendMessage(1) /\ AutoBounds' /\ UNCHANGED bvars
    \/ \E p \in sending, error \in BOOLEAN : SendCallback(p, error) /\ UNCHANGED bvars
    \/ \E clearAfterRead \in BOOLEAN :
          ReceiveMessages(1, "get-all", NoSince, clearAfterRead) /\ UNCHANGED bvars
    \/ ListSockets /\ UNCHANGED bvars

\* PageSpec: the puppeteer tools with one browser launched
PageBounds == nextBrowserId <= 2

PageNext ==
    \/ \E url \in BOOLEAN : LaunchBrowser(url) /\ UNCHANGED svars /\ PageBounds'
    \/ \E c \in calls, ok \in BOOLEAN : LaunchBrowserLaunched(c, ok) /\ UNCHANGED svars
    \/ \E c \in calls, o \in {"throw", "empty", "page"} :
          LaunchBrowserPages(c, o) /\ UNCHANGED svars
    \/ \E c \in calls, ok \in BOOLEAN : LaunchBrowserGoto(c, ok) /\ UNCHANGED svars
    \/ \E url \in BOOLEAN : OpenPage(1, url) /\ UNCHANGED svars
    \/ \E c \in calls, ok \in BOOLEAN : OpenPageNewPage(c, ok) /\ UNCHANGED svars
    \/ \E c \in calls, ok \in BOOLEAN : OpenPageGoto(c, ok) /\ UNCHANGED svars
    \/ CloseBrowser(1) /\ UNCHANGED svars
    \/ \E c \in calls, ok \in BOOLEAN : CloseBrowserClosed(c, ok) /\ UNCHANGED svars
    \/ BrowserDisconnect(1) /\ UNCHANGED svars
    \/ \E p \in 1..MaxPages : ClosePage(p) /\ UNCHANGED svars
    \/ \E c \in calls, ok \in BOOLEAN : ClosePageClosed(c, ok) /\ UNCHANGED svars
    \/ \E p \in 1..MaxPages : ExecPage(p) /\ UNCHANGED svars
    \/ \E c \in calls, ok \in BOOLEAN : ExecPageDone(c, ok) /\ UNCHANGED svars

\* IsoSpec: MaxIsoSockets sessions side by side. Session 1 has every call
\* and every event of a session with autoReconnect; the sessions after it
\* connect, open, receive messages and are read; list sees them all.
IsoConfigs ==
    {SocketConfig(TRUE, 1, DefaultReconnectInterval, 1)}

IsoBounds == Within(MaxIsoSockets, MaxIsoConns, 1, 0)

\* the WebSocket objects of session 1
IsoConns == {h \in DOMAIN ws : ws[h].socketId = 1}

IsoNext ==
    \/ \E config \in IsoConfigs :
          ConnectSocket(WsUrl, config) /\ IsoBounds' /\ UNCHANGED bvars
    \/ \E h \in DOMAIN ws : WsOpen(h) /\ UNCHANGED bvars
    \/ \E h \in DOMAIN ws : WsMessage(h) /\ UNCHANGED bvars
    \/ \E h \in IsoConns : WsError(h) /\ UNCHANGED bvars
    \/ \E h \in IsoConns : WsPeerClosing(h) /\ UNCHANGED bvars
    \/ \E h \in IsoConns : WsClose(h) /\ UNCHANGED bvars
    \/ \E h \in IsoConns : WsFail(h) /\ UNCHANGED bvars
    \/ \E t \in timers : TimerFire(t) /\ IsoBounds' /\ UNCHANGED bvars
    \/ SendMessage(1) /\ IsoBounds' /\ UNCHANGED bvars
    \/ \E p \in sending, error \in BOOLEAN : SendCallback(p, error) /\ UNCHANGED bvars
    \/ \E id \in 1..MaxIsoSockets :
          ReceiveMessages(id, "get-all", NoSince, TRUE) /\ UNCHANGED bvars
    \/ CloseSocket(1, TRUE) /\ UNCHANGED bvars
    \/ \E c \in closing : CloseTimeout(c) /\ UNCHANGED bvars
    \/ ListSockets /\ UNCHANGED bvars

\* LatestSpec: a session with the default configuration whose queue grows
\* to MaxLatestQueue messages and is read, while open and after an error
LatestConfigs ==
    {SocketConfig(FALSE, DefaultMaxReconnectAttempts, DefaultReconnectInterval,
                  DefaultMessageHistoryLimit)}

LatestBounds == Within(1, 1, MaxLatestQueue, 0)

LatestNext ==
    \/ \E config \in LatestConfigs :
          ConnectSocket(WsUrl, config) /\ LatestBounds' /\ UNCHANGED bvars
    \/ \E h \in DOMAIN ws : WsOpen(h) /\ UNCHANGED bvars
    \/ \E h \in DOMAIN ws : WsMessage(h) /\ LatestBounds' /\ UNCHANGED bvars
    \/ \E h \in DOMAIN ws : WsError(h) /\ LatestBounds' /\ UNCHANGED bvars
    \/ \E h \in DOMAIN ws : WsClose(h) /\ LatestBounds' /\ UNCHANGED bvars
    \/ \E action \in {"get-latest", "get-all"}, clearAfterRead \in BOOLEAN :
          ReceiveMessages(1, action, NoSince, clearAfterRead) /\ UNCHANGED bvars

\* ListSpec: listBrowsers and listPages while browsers and pages are
\* launched, opened, closed and disconnected
ListBounds == Cardinality(calls) <= MaxListCalls

ListNext ==
    \/ LaunchBrowser(FALSE) /\ UNCHANGED svars /\ ListBounds'
    \/ \E c \in calls : LaunchBrowserLaunched(c, TRUE) /\ UNCHANGED svars
    \/ \E b \in 1..MaxBrowsers : OpenPage(b, FALSE) /\ UNCHANGED svars /\ ListBounds'
    \/ \E c \in calls : OpenPageNewPage(c, TRUE) /\ UNCHANGED svars
    \/ \E b \in 1..MaxBrowsers : CloseBrowser(b) /\ UNCHANGED svars /\ ListBounds'
    \/ \E c \in calls : CloseBrowserClosed(c, TRUE) /\ UNCHANGED svars
    \/ \E p \in 1..MaxPages : ClosePage(p) /\ UNCHANGED svars /\ ListBounds'
    \/ \E c \in calls : ClosePageClosed(c, TRUE) /\ UNCHANGED svars
    \/ \E b \in 1..MaxBrowsers : BrowserDisconnect(b) /\ UNCHANGED svars
    \/ ListBrowsers /\ UNCHANGED svars /\ ListBounds'
    \/ \E c \in calls, o \in ListOutcomes : ListBrowsersItem(c, o) /\ UNCHANGED svars
    \/ ListPages /\ UNCHANGED svars /\ ListBounds'
    \/ \E c \in calls, o \in ListOutcomes : ListPagesItem(c, o) /\ UNCHANGED svars

\* StoreSpec: the three stores side by side, one browser, one page and
\* one session with autoReconnect, under every operation and event
StoreConfigs ==
    {SocketConfig(TRUE, 1, DefaultReconnectInterval, 1)}

StoreBounds ==
    /\ Within(MaxStoreIds, MaxStoreConns, 1, 0)
    /\ nextBrowserId <= MaxStoreIds + 1 /\ nextPageId <= MaxStoreIds + 1
    /\ Cardinality(calls) <= MaxStoreCalls

StoreNext ==
    \/ LaunchBrowser(FALSE) /\ UNCHANGED svars /\ StoreBounds'
    \/ \E c \in calls : LaunchBrowserLaunched(c, TRUE) /\ UNCHANGED svars
    \/ \E b \in 1..MaxStoreIds : OpenPage(b, FALSE) /\ UNCHANGED svars /\ StoreBounds'
    \/ \E c \in calls : OpenPageNewPage(c, TRUE) /\ UNCHANGED svars
    \/ \E b \in 1..MaxStoreIds : CloseBrowser(b) /\ UNCHANGED svars /\ StoreBounds'
    \/ \E c \in calls : CloseBrowserClosed(c, TRUE) /\ UNCHANGED svars
    \/ \E p \in 1..MaxStoreIds : ClosePage(p) /\ UNCHANGED svars /\ StoreBounds'
    \/ \E c \in calls : ClosePageClosed(c, TRUE) /\ UNCHANGED svars
    \/ \E b \in 1..MaxStoreIds : BrowserDisconnect(b) /\ UNCHANGED svars
    \/ ListBrowsers /\ UNCHANGED svars /\ StoreBounds'
    \/ \E c \in calls : ListBrowsersItem(c, "threw") /\ UNCHANGED svars
    \/ ListPages /\ UNCHANGED svars /\ StoreBounds'
    \/ \E c \in calls : ListPagesItem(c, "threw") /\ UNCHANGED svars
    \/ \E config \in StoreConfigs :
          ConnectSocket(WsUrl, config) /\ UNCHANGED bvars /\ StoreBounds'
    \/ \E c \in connecting : ConnectTimeout(c) /\ UNCHANGED bvars
    \/ \E h \in DOMAIN ws : WsOpen(h) /\ UNCHANGED bvars
    \/ \E h \in DOMAIN ws : WsMessage(h) /\ UNCHANGED bvars
    \/ \E h \in DOMAIN ws : WsError(h) /\ UNCHANGED bvars
    \/ \E h \in DOMAIN ws : WsPeerClosing(h) /\ UNCHANGED bvars
    \/ \E h \in DOMAIN ws : WsClose(h) /\ UNCHANGED bvars
    \/ \E h \in DOMAIN ws : WsFail(h) /\ UNCHANGED bvars
    \/ \E t \in timers : TimerFire(t) /\ UNCHANGED bvars /\ StoreBounds'
    \/ \E id \in 1..MaxStoreIds : SendMessage(id) /\ UNCHANGED bvars /\ StoreBounds'
    \/ \E p \in sending, error \in BOOLEAN : SendCallback(p, error) /\ UNCHANGED bvars
    \/ \E id \in 1..MaxStoreIds :
          ReceiveMessages(id, "get-all", NoSince, FALSE) /\ UNCHANGED bvars
    \/ \E id \in 1..MaxStoreIds : CloseSocket(id, TRUE) /\ UNCHANGED bvars
    \/ \E c \in closing : CloseTimeout(c) /\ UNCHANGED bvars
    \/ ListSockets /\ UNCHANGED bvars

\* IdSpec: launchBrowser, openPage and the close operations with id
\* generators that may return any id of 1..MaxBrowsers and 1..MaxPages
IdBounds == Cardinality(calls) <= 1

IdNext ==
    \/ \E id \in 1..MaxBrowsers : DrawBrowserId(id) /\ UNCHANGED svars /\ IdBounds'
    \/ \E id \in 1..MaxPages : DrawPageId(id) /\ UNCHANGED svars /\ IdBounds'
    \/ LaunchBrowser(FALSE) /\ UNCHANGED svars /\ IdBounds'
    \/ \E c \in calls : LaunchBrowserLaunched(c, TRUE) /\ UNCHANGED svars /\ IdBounds'
    \/ \E b \in 1..MaxBrowsers : OpenPage(b, FALSE) /\ UNCHANGED svars /\ IdBounds'
    \/ \E c \in calls : OpenPageNewPage(c, TRUE) /\ UNCHANGED svars /\ IdBounds'
    \/ \E b \in 1..MaxBrowsers : CloseBrowser(b) /\ UNCHANGED svars /\ IdBounds'
    \/ \E c \in calls : CloseBrowserClosed(c, TRUE) /\ UNCHANGED svars /\ IdBounds'
    \/ \E p \in 1..MaxPages : ClosePage(p) /\ UNCHANGED svars /\ IdBounds'
    \/ \E c \in calls : ClosePageClosed(c, TRUE) /\ UNCHANGED svars /\ IdBounds'

\* LookupSpec: the three stores together, with one browser, one page and
\* one session made, and every operation that names an id called with the
\* ids 1..MaxLookupIds
LookupConfigs ==
    {SocketConfig(FALSE, DefaultMaxReconnectAttempts, DefaultReconnectInterval, 1)}

LookupBounds ==
    /\ Within(1, 1, 1, 0)
    /\ nextBrowserId <= 2 /\ nextPageId <= 2
    /\ Cardinality(calls) <= 1

LookupNext ==
    \/ LaunchBrowser(FALSE) /\ UNCHANGED svars /\ LookupBounds'
    \/ \E c \in calls : LaunchBrowserLaunched(c, TRUE) /\ UNCHANGED svars
    \/ \E b \in 1..MaxLookupIds : OpenPage(b, FALSE) /\ UNCHANGED svars /\ LookupBounds'
    \/ \E c \in calls, ok \in BOOLEAN :
          OpenPageNewPage(c, ok) /\ UNCHANGED svars /\ LookupBounds'
    \/ \E b \in 1..MaxLookupIds : CloseBrowser(b) /\ UNCHANGED svars /\ LookupBounds'
    \/ \E c \in calls : CloseBrowserClosed(c, TRUE) /\ UNCHANGED svars
    \/ \E p \in 1..MaxLookupIds : ClosePage(p) /\ UNCHANGED svars /\ LookupBounds'
    \/ \E c \in calls : ClosePageClosed(c, TRUE) /\ UNCHANGED svars
    \/ \E p \in 1..MaxLookupIds : ExecPage(p) /\ UNCHANGED svars /\ LookupBounds'
    \/ \E c \in calls, ok \in BOOLEAN : ExecPageDone(c, ok) /\ UNCHANGED svars
    \/ \E config \in LookupConfigs :
          ConnectSocket(WsUrl, config) /\ UNCHANGED bvars /\ LookupBounds'
    \/ \E h \in DOMAIN ws : WsOpen(h) /\ UNCHANGED bvars
    \/ \E h \in DOMAIN ws : WsClose(h) /\ UNCHANGED bvars
    \/ \E id \in 1..MaxLookupIds : SendMessage(id) /\ UNCHANGED bvars /\ LookupBounds'
    \/ \E p \in sending : SendCallback(p, FALSE) /\ UNCHANGED bvars
    \/ \E id \in 1..MaxLookupIds :
          ReceiveMessages(id, "get-all", NoSince, FALSE) /\ UNCHANGED bvars
    \/ \E id \in 1..MaxLookupIds : CloseSocket(id, TRUE) /\ UNCHANGED bvars
    \/ \E c \in closing : CloseTimeout(c) /\ UNCHANGED bvars

Init == BrowserInit /\ SocketInit /\ ret = NoRet

BrowserSpec == Init /\ [][BrowserNext]_vars

Spec == Init /\ [][SocketNext]_vars

QueueSpec == Init /\ [][QueueNext]_vars

ReconnectSpec == Init /\ [][ReconnectNext]_vars

AttemptsSpec == Init /\ [][AttemptsNext]_vars

LookupSpec == Init /\ [][LookupNext]_vars

PageSpec == Init /\ [][PageNext]_vars

IdSpec == Init /\ [][IdNext]_vars

IsoSpec == Init /\ [][IsoNext]_vars

ListSpec == Init /\ [][ListNext]_vars

StoreSpec == Init /\ [][StoreNext]_vars

\* the 10 s timer of a connect promise fires unless an event cleared it
ConnectSpec ==
    Spec /\ WF_vars((\E c \in connecting : ConnectTimeout(c)) /\ UNCHANGED bvars)

LatestSpec == Init /\ [][LatestNext]_vars

\* a reconnect timer that was set fires
AutoSpec == Init /\ [][AutoNext]_vars /\ WF_vars(AutoTimer)

\* the 5 s timer of a closeSocket call is never cleared once the call waits,
\* so it fires
CloseSpec ==
    ReconnectSpec /\ WF_vars((\E c \in closing : CloseTimeout(c)) /\ UNCHANGED bvars)

\* ---------------------------------------------------------------- C1
\* C1: whenever closeBrowser(B) returns success, B is absent from the browser
\* registry, no page whose browserId is B is left in the page registry, and
\* cleanedPagesCount is the number of page entries that step removed.
C1_CloseBrowserCascade ==
    [][(ret'.op = "closeBrowser" /\ ret'.success) =>
        /\ ret'.id \notin DOMAIN mcpBrowsers'
        /\ \A p \in DOMAIN mcpPages' : mcpPages'[p].browserId # ret'.id
        /\ ret'.cleanedPagesCount =
               Cardinality((DOMAIN mcpPages) \ (DOMAIN mcpPages'))]_vars

\* closeBrowser has just removed a browser with a page while another
\* browser's page stays registered
C1_Witness ==
    /\ ret.op = "closeBrowser" /\ ret.success
    /\ ret.cleanedPagesCount >= 1
    /\ \E p \in DOMAIN mcpPages : mcpPages[p].browserId \in DOMAIN mcpBrowsers

\* ---------------------------------------------------------------- C2
\* C2: in every state between handler steps, every entry of the page
\* registry has a browserId that names an entry of the browser registry.
C2_PagesHaveBrowser ==
    \A p \in DOMAIN mcpPages : mcpPages[p].browserId \in DOMAIN mcpBrowsers

\* ---------------------------------------------------------------- C3
\* C3: in every state, the message queue of every stored session is no
\* longer than the messageHistoryLimit the session was connected with, for
\* every limit 0, 1, 2, ... that connect accepts.
C3_QueueWithinLimit ==
    \A id \in sockets :
        Len(instances[id].messageQueue) <= instances[id].config.messageHistoryLimit

\* ---------------------------------------------------------------- C4
\* C4 as stated: in every state, the WebSocket objects that reconnections
\* have created for a session are no more than its maxReconnectAttempts.
C4_AtMostMaxAttempts ==
    \A id \in DOMAIN instances :
        Cardinality({h \in DOMAIN ws : ws[h].socketId = id /\ ws[h].reconnect})
            <= instances[id].config.maxReconnectAttempts

\* C4, amended: count for a session the reconnections made since its last
\* WebSocket that opened. In every state that count is at most
\* maxReconnectAttempts; a step sets a reconnect timer for the session
\* exactly when one of its WebSockets closes with the count below
\* maxReconnectAttempts, and the timer's delay is reconnectInterval * 2^count
\* (the interval, then twice the delay before it); a close at
\* count = maxReconnectAttempts sets no timer.
C4_ConsecutiveAttempts ==
    [][LET Attempts(sock, id) ==
               Cardinality({h \in DOMAIN sock :
                   /\ sock[h].socketId = id /\ sock[h].reconnect
                   /\ \A g \in DOMAIN sock :
                         (sock[g].socketId = id /\ sock[g].opened) => g < h})
           Closes(id) ==
               \E h \in DOMAIN ws :
                   /\ ws[h].socketId = id
                   /\ ws[h].readyState # CLOSED /\ ws'[h].readyState = CLOSED
       IN  /\ \A id \in DOMAIN instances' :
                 Attempts(ws', id) <= instances'[id].config.maxReconnectAttempts
           /\ \A id \in DOMAIN instances :
                 /\ \A t \in timers' \ timers :
                       t.socketId = id =>
                         /\ Closes(id)
                         /\ Attempts(ws, id) < instances[id].config.maxReconnectAttempts
                         /\ t.delay = instances[id].config.reconnectInterval
                                           * 2 ^ Attempts(ws, id)
                 /\ (Closes(id) /\ Attempts(ws, id)
                                     < instances[id].config.maxReconnectAttempts)
                       => \E t \in timers' \ timers : t.socketId = id]_vars

\* a session with maxReconnectAttempts = MaxAttempts whose first WebSocket
\* opened and closed, and whose MaxAttempts reconnections have all closed
\* without opening: no timer is left
C4_Witness ==
    \E id \in sockets :
        /\ instances[id].config.maxReconnectAttempts = MaxAttempts
        /\ ws[1].socketId = id /\ ws[1].opened
        /\ Cardinality({h \in DOMAIN ws : ws[h].socketId = id /\ ws[h].reconnect
                                            /\ ~ws[h].opened}) = MaxAttempts
        /\ \A h \in DOMAIN ws : ws[h].readyState = CLOSED
        /\ timers = {}

\* ---------------------------------------------------------------- C5
\* C5: a close call answers success exactly when it found the session in
\* the store, the session is absent from the store when it answers, and a
\* close call that waits for the close event is always eventually answered
\* with success, whether or not the close event ever comes.
C5_CloseEventuallySucceeds ==
    /\ [][ret'.op = "close" =>
            /\ ret'.success => ret'.id \notin sockets'
            /\ ~ret'.success => ret'.id \notin sockets]_vars
    /\ (\E c \in closing : ~c.resolved)
           ~> (ret.op = "close" /\ ret.success /\ ret.id \notin sockets)

\* the 5 s timer has answered a close call whose close event has not come:
\* the WebSocket is terminated and the session is gone
C5_Witness ==
    /\ ret.op = "close" /\ ret.success /\ ret.error = ""
    /\ ret.id \notin sockets
    /\ ws[instances[ret.id].socket].opened
    /\ ws[instances[ret.id].socket].readyState = CLOSING

C7_StateMachineAsStated ==
    [][\A id \in sockets \cap sockets' :
          \/ instances'[id].status = instances[id].status
          \/ <<instances[id].status, instances'[id].status>> \in
                 {<<"connecting", "open">>, <<"open", "closing">>,
                  <<"closing", "closed">>, <<"connecting", "closed">>}
          \/ /\ <<instances[id].status, instances'[id].status>>
                    = <<"closed", "connecting">>
             /\ \E t \in timers \ timers' : t.socketId = id]_vars

\* C7, amended: the status of a session that stays in the store changes
\* only from connecting to open, open to closing, open to closed
\* (the connection closes with no close call waiting) or connecting to
\* closed, or from closed to connecting in a step that runs a reconnect
\* timer of the session; a session whose status is closing keeps that
\* status for as long as it is in the store.
C7_StateMachine ==
    [][\A id \in sockets \cap sockets' :
          \/ instances'[id].status = instances[id].status
          \/ <<instances[id].status, instances'[id].status>> \in
                 {<<"connecting", "open">>, <<"open", "closing">>,
                  <<"open", "closed">>, <<"connecting", "closed">>}
          \/ /\ <<instances[id].status, instances'[id].status>>
                    = <<"closed", "connecting">>
             /\ \E t \in timers \ timers' : t.socketId = id]_vars

\* a stored session is closed, its WebSocket had opened, and no close call
\* was made
C7_Witness ==
    \E id \in sockets :
        /\ instances[id].status = "closed"
        /\ ws[instances[id].socket].opened
        /\ closing = {}

\* ---------------------------------------------------------------- C8
\* C8: a send is handed to the WebSocket only if the session is stored with
\* status open and its WebSocket is in ready state OPEN; every other send
\* is answered at once with success = false, and that step changes no
\* message queue and starts no write.
C8_SendWhenNotOpen ==
    [][/\ \A p \in sending' \ sending :
             /\ p.socketId \in sockets
             /\ instances[p.socketId].status = "open"
             /\ ws[instances[p.socketId].socket].readyState = OPEN
       /\ (ret'.op = "send" /\ sending' = sending /\ ret'.messageId = 0) =>
             /\ ~ret'.success
             /\ instances' = instances]_vars

\* a send was refused for a stored session whose status is open while its
\* WebSocket is closing
C8_Witness ==
    /\ ret.op = "send" /\ ~ret.success
    /\ ret.id \in sockets
    /\ instances[ret.id].status = "open"
    /\ ws[instances[ret.id].socket].readyState = CLOSING

\* ---------------------------------------------------------------- C9
\* C9: a get-since answer for the time T holds exactly the queue entries
\* stamped later than T, in queue order, and the step changes no queue.
C9_GetSince ==
    [][(ret'.op = "receive" /\ ret'.success /\ ret'.action = "get-since"
            /\ ret'.since.kind = "iso") =>
          LET Later(m) == m.timestamp > ret'.since.ms
          IN  /\ ret'.messages = SelectSeq(instances[ret'.id].messageQueue, Later)
              /\ instances' = instances]_vars

\* a get-since answer that holds some entries of the queue and leaves
\* others out
C9_Witness ==
    /\ ret.op = "receive" /\ ret.success /\ ret.action = "get-since"
    /\ ret.since.kind = "iso"
    /\ ret.messages # <<>>
    /\ Len(ret.messages) < Len(instances[ret.id].messageQueue)

C11_ReconnectHappens ==
    \A id \in 1..MaxSockets :
        (\E t \in timers : t.socketId = id)
            ~> (\E h \in DOMAIN ws :
                   /\ ws[h].socketId = id /\ ws[h].reconnect
                   /\ ws[h].readyState = CONNECTING)

\* --------------------------------------------------------------- C12
\* C12 as stated: a stored session with status closed and no reconnect
\* timer stays in the store with status closed in every step but the
\* answer of a close call for it, and a list answer reports it as closed.
C12_ClosedStaysListed ==
    [][\A id \in sockets :
          (instances[id].status = "closed" /\ \A t \in timers : t.socketId # id) =>
            /\ (id \in sockets' /\ instances'[id].status = "closed")
                  \/ (ret'.op = "close" /\ ret'.id = id)
            /\ ret'.op = "list" =>
                  (id \in DOMAIN ret'.listed /\ ret'.listed[id] = "closed")]_vars

\* C12, amended: a stored session with status closed and no reconnect
\* timer stays in the store with status closed in every step but the
\* answer of a close call for it and a list call; a receive answer for it
\* reports the status closed; a list call removes it from the store and
\* does not report it.
C12_ClosedUntilCloseOrList ==
    [][\A id \in sockets :
          (instances[id].status = "closed" /\ \A t \in timers : t.socketId # id) =>
            /\ (id \in sockets' /\ instances'[id].status = "closed")
                  \/ (ret'.op = "close" /\ ret'.id = id)
                  \/ ret'.op = "list"
            /\ (ret'.op = "receive" /\ ret'.id = id) =>
                  (ret'.success /\ ret'.status = "closed")
            /\ ret'.op = "list" =>
                  (id \notin sockets' /\ id \notin DOMAIN ret'.listed)]_vars

\* a receive has just reported a stored session as closed, with no
\* reconnect timer and no close call
C12_Witness ==
    /\ ret.op = "receive" /\ ret.success /\ ret.status = "closed"
    /\ ret.id \in sockets
    /\ timers = {} /\ closing = {}

\* --------------------------------------------------------------- C13
\* C13 as stated: whenever connect answers success = false for a timeout
\* or a connection error, the session of the returned id is in the store.
C13_FailedConnectStored ==
    [][(ret'.op = "connect" /\ ~ret'.success /\ ret'.error # "InvalidURL")
          => ret'.id \in sockets']_vars

\* C13, amended: the step in which connect answers success = false for a
\* timeout or a connection error takes no session out of the store, and
\* the session of the returned id is in the store unless a close call was
\* made for it; a stored session takes the status open when its WebSocket
\* opens and closed when its WebSocket closes, whatever connect answered.
C13_NoRollback ==
    [][/\ (ret'.op = "connect" /\ ~ret'.success /\ ret'.error # "InvalidURL") =>
             /\ sockets' = sockets
             /\ ret'.id \in sockets' \/ instances'[ret'.id].status = "closing"
       /\ \A h \in DOMAIN ws :
             (ws[h].socketId \in sockets' /\ instances'[ws[h].socketId].socket = h) =>
               /\ (ws[h].readyState = CONNECTING /\ ws'[h].readyState = OPEN)
                     => instances'[ws[h].socketId].status = "open"
               /\ (ws[h].readyState # CLOSED /\ ws'[h].readyState = CLOSED)
                     => instances'[ws[h].socketId].status = "closed"]_vars

\* the WebSocket of a session has just opened after connect had answered
\* with a timeout: the session is stored with status open and its
\* "connected" message
C13_Witness ==
    /\ ret = NoRet /\ sending = {} /\ connecting = {}
    /\ Len(ws) = 1 /\ ws[1].readyState = OPEN
    /\ ws[1].socketId \in sockets
    /\ instances[ws[1].socketId].status = "open"
    /\ Len(instances[ws[1].socketId].messageQueue) = 1
    /\ instances[ws[1].socketId].messageQueue[1].data = "connected"

C15_ClosePage ==
    [][/\ ret'.op = "closePage" =>
             /\ ret'.success => ret'.id \notin DOMAIN mcpPages'
             /\ (calls' = calls /\ ret'.id \notin DOMAIN mcpPages) =>
                   /\ ~ret'.success /\ ret'.error = "NotFound"
                   /\ mcpPages' = mcpPages /\ mcpBrowsers' = mcpBrowsers
             /\ (calls' = calls /\ ret'.id \in DOMAIN mcpPages) =>
                   /\ pageClosed[mcpPages[ret'.id].page]
                   /\ ret'.success
                   /\ pageClosed' = pageClosed /\ connected' = connected
                   /\ mcpBrowsers' = mcpBrowsers
                   /\ DOMAIN mcpPages' = (DOMAIN mcpPages) \ {ret'.id}
       /\ \A c \in calls' \ calls :
             c.op = "closePage" => ~pageClosed[mcpPages[c.page].page]]_vars

\* closePage has just answered success for a page that was closed with its
\* browser, with no page.close() call waiting
C15_Witness ==
    /\ ret.op = "closePage" /\ ret.success
    /\ ret.id \notin DOMAIN mcpPages
    /\ \A c \in calls : c.op # "closePage"
    /\ ~connected[1]
    /\ \E h \in DOMAIN pageClosed : h.tab = ret.id /\ pageClosed[h]

C17_SessionsIsolated ==
    [][\A a \in DOMAIN instances, b \in DOMAIN instances :
          (/\ a # b
           /\ \/ SendMessage(a)
              \/ \E p \in sending, error \in BOOLEAN :
                    p.socketId = a /\ SendCallback(p, error)
              \/ \E clearAfterRead \in BOOLEAN :
                    ReceiveMessages(a, "get-all", NoSince, clearAfterRead)
              \/ \E codeOk \in BOOLEAN : CloseSocket(a, codeOk)
              \/ \E c \in closing : c.socketId = a /\ CloseTimeout(c)
              \/ \E t \in timers : t.socketId = a /\ TimerFire(t)
              \/ \E h \in DOMAIN ws :
                    /\ ws[h].socketId = a
                    /\ \/ WsOpen(h) \/ WsMessage(h) \/ WsError(h)
                       \/ WsPeerClosing(h) \/ WsClose(h) \/ WsFail(h))
          => /\ (b \in sockets) = (b \in sockets')
             /\ instances'[b].status = instances[b].status
             /\ instances'[b].messageQueue = instances[b].messageQueue
             /\ instances'[b].config = instances[b].config
             /\ instances'[b].reconnectAttempts = instances[b].reconnectAttempts]_vars

\* session 1 has just been sent a message that the socket refused, next to
\* an open session 2 with a message in its queue
C17_Witness ==
    /\ ret.op = "send" /\ ~ret.success /\ ret.id = 1
    /\ 2 \in sockets
    /\ instances[2].status = "open"
    /\ instances[2].messageQueue # <<>>
    /\ instances[1].messageQueue # <<>>

C19_LatestAndAll ==
    [][(ret'.op = "receive" /\ ret'.success) =>
          LET queue == instances[ret'.id].messageQueue
              n == IF Len(queue) < LatestCount THEN Len(queue) ELSE LatestCount
          IN  /\ ret'.action = "get-latest" =>
                    /\ Len(ret'.messages) = n
                    /\ \A i \in 1..n :
                          ret'.messages[i] = queue[Len(queue) - n + i]
              /\ ret'.action = "get-all" => ret'.messages = queue]_vars

\* a get-latest answer of LatestCount messages from a longer queue
C19_Witness ==
    /\ ret.op = "receive" /\ ret.success /\ ret.action = "get-latest"
    /\ Len(ret.messages) = LatestCount
    /\ Len(instances[ret.id].messageQueue) > LatestCount

\* --------------------------------------------------------------- C20
\* C20: a receive on a session of the store empties the queue of the
\* session when its action is get-all and clearAfterRead is true, and
\* changes nothing else of the session; every other receive leaves the
\* sessions as they were, queue, status and lastActivity included; the
\* answer says `cleared` exactly when clearAfterRead was true. A
\* get-all answer holds the queue of that moment, so after a clearing read
\* it holds only what was appended since.
C20_ClearOnlyOnGetAll ==
    [][(ret'.op = "receive" /\ ret'.id \in sockets) =>
          LET id == ret'.id
              clearing == /\ ret'.success /\ ret'.action = "get-all"
                          /\ ret'.cleared # "absent"
          IN  /\ clearing =>
                    instances' = [instances EXCEPT ![id].messageQueue = <<>>]
              /\ ~clearing => instances' = instances
              /\ (ret'.success /\ ret'.action = "get-all") =>
                    ret'.messages = instances[id].messageQueue
              /\ sockets' = sockets]_vars

\* a get-all read has just handed out the messages of the queue and left
\* the queue empty
C20_Witness ==
    /\ ret.op = "receive" /\ ret.success /\ ret.action = "get-all"
    /\ ret.messages # <<>>
    /\ instances[ret.id].messageQueue = <<>>

\* --------------------------------------------------------------- C21
\* C21: the step in which send writes on a WebSocket finds the session in
\* the store with status open and that WebSocket, the one of the session,
\* with ready state OPEN, and the same holds when the step is over: the
\* checks and the write are one step, in which nothing else happens.
C21_WriteOnlyWhenOpen ==
    [][\A p \in sending' \ sending :
          /\ p.socketId \in sockets
          /\ instances[p.socketId].status = "open"
          /\ instances[p.socketId].socket = p.h
          /\ ws[p.h].readyState = OPEN
          /\ sockets' = sockets /\ instances' = instances /\ ws' = ws
          /\ timers' = timers /\ closing' = closing]_vars

\* a write is pending on a WebSocket that has started to close since
C21_Witness ==
    \E p \in sending :
       /\ ws[p.h].readyState = CLOSING
       /\ instances[p.socketId].status = "closing"

\* --------------------------------------------------------------- C22
\* C22: a send that answers success = true has appended to the queue of
\* its session one message of type sent with the messageId of the answer,
\* and a send that answers an error of the underlying write has appended
\* nothing, whatever happened to the session since the write.
C22_SentIsQueued ==
    [][(ret'.op = "send" /\ ret'.messageId # 0) =>
          IF ret'.success
          THEN LET queue == instances'[ret'.id].messageQueue
                   Sent(m) == m.type = "sent" /\ m.id = ret'.messageId
               IN  /\ ret'.id \in sockets'
                   /\ Len(SelectSeq(queue, Sent)) = 1
                   /\ Sent(queue[Len(queue)])
                   /\ \A i \in DOMAIN instances[ret'.id].messageQueue :
                         ~Sent(instances[ret'.id].messageQueue[i])
          ELSE instances' = instances]_vars

\* --------------------------------------------------------------- C23
\* C23: a session connected with autoReconnect = false keeps the WebSocket
\* it was created with and no other WebSocket is created for it; its status
\* is closed only when that WebSocket is CLOSED, a CLOSED WebSocket stays
\* CLOSED, and from then on no step makes the status connecting or open.
C23_NoReconnectWithoutAuto ==
    [][\A id \in DOMAIN instances :
          ~instances[id].config.autoReconnect =>
             LET h == instances[id].socket
             IN  /\ instances'[id].socket = h
                 /\ \A k \in (DOMAIN ws') \ (DOMAIN ws) : ws'[k].socketId # id
                 /\ instances'[id].status = "closed" => ws'[h].readyState = CLOSED
                 /\ ws[h].readyState = CLOSED =>
                       /\ ws'[h].readyState = CLOSED
                       /\ instances'[id].status \notin {"connecting", "open"}]_vars

\* a session without autoReconnect is in the store with status closed, and
\* no timer is set
C23_Witness ==
    \E id \in sockets :
       /\ ~instances[id].config.autoReconnect
       /\ instances[id].status = "closed"
       /\ instances[id].reconnectAttempts = 0
       /\ timers = {}

\* --------------------------------------------------------------- C24
\* C24: a close event that sets a reconnect timer has added 1 to the
\* attempt counter of the session, to a value k of 1..maxReconnectAttempts,
\* and the timer's delay is reconnectInterval * 2^(k-1), on the WebSocket
\* that connect created and on those the reconnections created.
C24_BackoffDelay ==
    [][\A t \in timers' \ timers :
          LET id == t.socketId
              k == instances'[id].reconnectAttempts
          IN  /\ k = instances[id].reconnectAttempts + 1
              /\ k \in 1..instances[id].config.maxReconnectAttempts
              /\ t.delay = instances[id].config.reconnectInterval * 2^(k - 1)
              /\ ws'[t.h].readyState = CLOSED]_vars

\* the close of a WebSocket made by a reconnection has set the timer of
\* the third attempt in a row
C24_Witness ==
    \E t \in timers :
       /\ ws[t.h].reconnect
       /\ instances[t.socketId].reconnectAttempts = 3
       /\ t.delay = 4 * DefaultReconnectInterval

\* --------------------------------------------------------------- C25
\* C25: a step that makes the status of a session open, on the WebSocket
\* of connect or on one of a reconnection, leaves its reconnectAttempts at
\* 0 and appends one message to its queue, of type received and with the
\* event connected or reconnected, under an id no queued message had.
C25_OpenResetsAndLogs ==
    [][\A id \in DOMAIN instances :
          (instances[id].status # "open" /\ instances'[id].status = "open") =>
             LET before == instances[id].messageQueue
                 after == instances'[id].messageQueue
                 m == after[Len(after)]
                 full == Append(before, m)
                 limit == instances[id].config.messageHistoryLimit
             IN  /\ instances'[id].reconnectAttempts = 0
                 /\ after # <<>>
                 /\ m.type = "received"
                 /\ m.data = IF ws[instances[id].socket].reconnect
                             THEN "reconnected" ELSE "connected"
                 /\ \A i \in DOMAIN before : before[i].id # m.id
                 /\ Len(after) = IF Len(full) < limit THEN Len(full) ELSE limit
                 /\ after = SubSeq(full, Len(full) - Len(after) + 1, Len(full))]_vars

\* a reconnection has opened: the session is open again with no attempts
\* counted and `reconnected` as its last message
C25_Witness ==
    \E id \in sockets :
       /\ instances[id].status = "open"
       /\ ws[instances[id].socket].reconnect
       /\ instances[id].reconnectAttempts = 0
       /\ instances[id].messageQueue # <<>>
       /\ instances[id].messageQueue[Len(instances[id].messageQueue)].data
             = "reconnected"

\* --------------------------------------------------------------- C26
\* C26: a reconnect timer that fires creates a WebSocket exactly when its
\* session is in the store with status closed; the session then has the
\* new WebSocket as its socket, status connecting and lastActivity at the
\* time of the step, and every other field as before (id, url, createdAt,
\* config, messageQueue, reconnectAttempts). Otherwise the step changes no
\* session and no WebSocket. No session and no store entry is added or
\* removed.
C26_TimerReconnects ==
    [][\A t \in timers \ timers' :
          LET id == t.socketId
              still == id \in sockets /\ instances[id].status = "closed"
          IN  /\ (Len(ws') = Len(ws) + 1) = still
              /\ still =>
                    /\ ws' = Append(ws, [socketId |-> id, readyState |-> CONNECTING,
                                         opened |-> FALSE, reconnect |-> TRUE])
                    /\ instances' = [instances EXCEPT
                                        ![id].socket = Len(ws'),
                                        ![id].status = "connecting",
                                        ![id].lastActivity = now]
              /\ ~still => (ws' = ws /\ instances' = instances)
              /\ sockets' = sockets]_vars

\* a reconnection is under way on a session that kept its queue: the
\* session is connecting on a WebSocket made by a timer, with the messages
\* of its earlier connection
C26_Witness ==
    \E id \in sockets :
       /\ instances[id].status = "connecting"
       /\ ws[instances[id].socket].reconnect
       /\ ws[instances[id].socket].readyState = CONNECTING
       /\ instances[id].messageQueue # <<>>
       /\ instances[id].reconnectAttempts > 0
       /\ ret = NoRet

\* --------------------------------------------------------------- C27
\* C27: a list step takes out of the store exactly the sessions whose
\* status is closed and whose WebSocket is CLOSED, changes no session and
\* no WebSocket, and lists the sessions that are left. In every other step
\* a session leaves the store only through a close call made on it: the
\* step answers that close call, or the close call is waiting for the
\* WebSocket to close.
C27_SweepOnlyInList ==
    [][IF ret'.op = "list"
       THEN LET swept == {id \in sockets :
                            /\ instances[id].status = "closed"
                            /\ ws[instances[id].socket].readyState = CLOSED}
            IN  /\ sockets' = sockets \ swept
                /\ instances' = instances
                /\ ws' = ws
                /\ DOMAIN ret'.listed = sockets'
       ELSE \A id \in sockets \ sockets' :
               \/ ret'.op = "close" /\ ret'.id = id
               \/ \E c \in closing : c.socketId = id]_vars

\* a list has swept the closed session 1 and kept session 2
C27_Witness ==
    /\ ret.op = "list"
    /\ Len(instances) = 2
    /\ instances[1].status = "closed"
    /\ sockets = {2}
    /\ DOMAIN ret.listed = {2}

C29_CloseBrowserSwallows ==
    [][/\ (ret'.op = "closeBrowser" /\ ~ret'.success) =>
             /\ ret'.error = "NotFound"
             /\ ret'.id \notin DOMAIN mcpBrowsers
             /\ mcpBrowsers' = mcpBrowsers /\ mcpPages' = mcpPages
             /\ calls' = calls
       /\ (ret'.op = "closeBrowser" /\ ret'.id \in DOMAIN mcpBrowsers) =>
             ret'.success
       /\ \A c \in calls \ calls' :
             c.op = "closeBrowser" =>
                /\ ret'.op = "closeBrowser" /\ ret'.id = c.id /\ ret'.success
                /\ c.id \notin DOMAIN mcpBrowsers'
                /\ \A p \in DOMAIN mcpPages' : mcpPages'[p].browserId # c.id]_vars

\* browser.close() threw, the handle still reports connected, and
\* closeBrowser has answered success and removed the browser and a page
C29_Witness ==
    /\ ret.op = "closeBrowser" /\ ret.success
    /\ ret.id \in DOMAIN connected /\ connected[ret.id]
    /\ ret.cleanedPagesCount >= 1
    /\ ret.id \notin DOMAIN mcpBrowsers

\* --------------------------------------------------------------- C30
\* C30: the step in which launchBrowser or openPage answers success =
\* false changes neither registry. A failed launchBrowser leaves no browser
\* under the id it had generated; openPage fails with NotFound only for an
\* id that is not registered and with NotConnected only for a registered
\* browser whose handle is not connected, and a call whose newPage threw
\* ends with the page registry as it was.
C30_FailedCreateChangesNothing ==
    [][(ret'.op \in {"launchBrowser", "openPage"} /\ ~ret'.success) =>
          /\ mcpBrowsers' = mcpBrowsers
          /\ mcpPages' = mcpPages
          /\ ret'.op = "launchBrowser" =>
                /\ ret'.error = "LaunchError"
                /\ ret'.id \notin DOMAIN mcpBrowsers'
                /\ \A p \in DOMAIN mcpPages' : mcpPages'[p].browserId # ret'.id
          /\ ret'.op = "openPage" =>
                /\ ret'.error \in {"NotFound", "NotConnected", "DriverError"}
                /\ ret'.error = "NotFound" => ret'.id \notin DOMAIN mcpBrowsers
                /\ ret'.error = "NotConnected" =>
                      /\ ret'.id \in DOMAIN mcpBrowsers
                      /\ ~connected[mcpBrowsers[ret'.id].browser]
                /\ ret'.error = "DriverError" =>
                      \E c \in calls \ calls' :
                         c.op = "openPage" /\ c.pc = "newPage" /\ c.id = ret'.id]_vars

\* newPage has thrown for an openPage on a registered browser that has a
\* page already
C30_Witness ==
    /\ ret.op = "openPage" /\ ~ret.success /\ ret.error = "DriverError"
    /\ ret.id \in DOMAIN mcpBrowsers
    /\ \E p \in DOMAIN mcpPages : mcpPages[p].browserId = ret.id

\* --------------------------------------------------------------- C31
\* C31 as stated: an openPage that answers with a warning answers success,
\* and the page is in the page registry under the pageId of the answer,
\* with the browserId the call was given.
C31_WarningKeepsPage ==
    [][(ret'.op = "openPage" /\ ret'.warning) =>
          /\ ret'.success
          /\ ret'.pageId \in DOMAIN mcpPages'
          /\ mcpPages'[ret'.pageId].browserId = ret'.id]_vars

\* C31, amended: the answer of an openPage whose navigation has ended, with
\* or without a warning, is success with the pageId under which the call
\* stored its page, and the step changes no registry; while the navigation
\* is under way the page leaves the page registry only in a step that
\* answers a closePage or a closeBrowser, and as long as it is registered
\* its browserId is the one the call was given.
C31_WarningAfterStore ==
    [][/\ \A c \in calls \ calls' :
             (c.op = "openPage" /\ c.pc = "goto") =>
                /\ ret'.op = "openPage" /\ ret'.success
                /\ ret'.pageId = c.page /\ ret'.id = c.id
                /\ mcpPages' = mcpPages /\ mcpBrowsers' = mcpBrowsers
       /\ (ret'.op = "openPage" /\ ret'.warning) =>
             \E c \in calls \ calls' : c.op = "openPage" /\ c.pc = "goto"
       /\ \A c \in calls :
             (c.op = "openPage" /\ c.pc = "goto") =>
                /\ c.page \in DOMAIN mcpPages => mcpPages[c.page].browserId = c.id
                /\ (c.page \in DOMAIN mcpPages /\ c.page \notin DOMAIN mcpPages')
                      => ret'.op \in {"closePage", "closeBrowser"}]_vars

\* a navigation has failed and the page is registered under the pageId of
\* the answer
C31_Witness ==
    /\ ret.op = "openPage" /\ ret.success /\ ret.warning
    /\ ret.pageId \in DOMAIN mcpPages
    /\ mcpPages[ret.pageId].browserId = ret.id

\* C33 (as the code has it): a listing starts one query per id registered
\* at that moment and keeps exactly those until it answers; the answer is
\* a success with one entry per such id, where the entry of every item is
\* decided by its own outcome alone: the error marker exactly when its
\* queries threw, a normal entry titled "Untitled" when only a title()
\* rejected, a normal entry otherwise; no step of a listing writes the
\* browser or the page registry
C33_ListIsolatesFailures ==
    [][/\ (\A op \in {"listBrowsers", "listPages"} :
            LET before == {c \in calls : c.op = op}
                after  == {c \in calls' : c.op = op}
                key(c) == IF op = "listBrowsers" THEN c.id ELSE c.page
                stored == IF op = "listBrowsers" THEN DOMAIN mcpBrowsers
                                                 ELSE DOMAIN mcpPages
            IN  /\ (before = {} /\ after # {}) =>
                      /\ {key(c) : c \in after} = stored
                      /\ Cardinality(after) = Cardinality(stored)
                /\ (before # {} /\ after # {}) =>
                      {key(c) : c \in after} = {key(c) : c \in before}
                /\ (before # {} /\ after = {}) => ret'.op = op
                /\ ret'.op = op =>
                      /\ ret'.success
                      /\ after = {}
                      /\ before = {} => (stored = {} /\ DOMAIN ret'.listed = {})
                      /\ before # {} =>
                            DOMAIN ret'.listed = {key(c) : c \in before}
                      /\ (\A c \in before :
                            /\ c.pc \in ListOutcomes =>
                                  ret'.listed[key(c)] = ListEntry(c.pc)
                            /\ ret'.listed[key(c)] \in
                                  {ListEntry(o) : o \in ListOutcomes})
                /\ (before # after \/ ret'.op = op) =>
                      /\ mcpBrowsers' = mcpBrowsers
                      /\ mcpPages' = mcpPages)]_vars

\* C33 as stated: every entry of a listing is either a normal entry of a
\* query that succeeded or an error marker
C33_FailureIsMarker ==
    [][ret'.op \in {"listBrowsers", "listPages"} =>
          /\ ret'.success
          /\ \A k \in DOMAIN ret'.listed :
                ret'.listed[k] \in {ListEntry("ok"), ListEntry("threw")}]_vars

\* listPages answered for two pages: the queries of one threw, the other
\* is reported normally, and both are still registered
C33_Witness ==
    /\ ret.op = "listPages" /\ ret.success
    /\ DOMAIN ret.listed = {1, 2}
    /\ ret.listed[1] = "error marker" /\ ret.listed[2] = "entry"
    /\ {1, 2} \subseteq DOMAIN mcpPages

\* C32: a browser leaves its registry only in a step that answers a
\* closeBrowser of it; a page only in a step that answers a closePage of
\* it or a closeBrowser of its browser; a session only in a step that
\* answers a list (the sweep, and then it was closed), that answers a
\* close of it, or while a close call on it is waiting for the WebSocket.
\* A step that answers send, receive, connect, listBrowsers or listPages,
\* and a timer, message, error or peer-close step with no close call
\* waiting, removes no entry of any store.
C32_OnlyCloseRemoves ==
    [][/\ (\A b \in DOMAIN mcpBrowsers \ DOMAIN mcpBrowsers' :
             ret'.op = "closeBrowser" /\ ret'.success /\ ret'.id = b)
       /\ (\A p \in DOMAIN mcpPages \ DOMAIN mcpPages' :
             \/ ret'.op = "closePage" /\ ret'.success /\ ret'.id = p
             \/ /\ ret'.op = "closeBrowser" /\ ret'.success
                /\ ret'.id = mcpPages[p].browserId)
       /\ (\A s \in sockets \ sockets' :
             \/ ret'.op = "list" /\ instances[s].status = "closed"
             \/ ret'.op = "close" /\ ret'.id = s
             \/ \E k \in closing : k.socketId = s)
       /\ ((\/ ret'.op \in {"send", "receive", "connect", "listBrowsers",
                            "listPages", "launchBrowser", "openPage"}
            \/ (ret' = NoRet /\ closing = {})) =>
             /\ DOMAIN mcpBrowsers \subseteq DOMAIN mcpBrowsers'
             /\ DOMAIN mcpPages \subseteq DOMAIN mcpPages'
             /\ sockets \subseteq sockets')]_vars

\* the reconnect attempts of a session are used up and its WebSocket is
\* CLOSED after a peer close, a listPages has marked the page of a browser
\* that lost its connection, and browser, page and session are all stored
C32_Witness ==
    /\ ret.op = "listPages" /\ DOMAIN ret.listed = {1}
    /\ 1 \in DOMAIN mcpBrowsers /\ ~connected[1]
    /\ 1 \in DOMAIN mcpPages
    /\ 1 \in sockets
    /\ instances[1].status = "closed"
    /\ instances[1].reconnectAttempts = instances[1].config.maxReconnectAttempts
    /\ Len(ws) = MaxStoreConns
    /\ ws[instances[1].socket].readyState = CLOSED
    /\ timers = {} /\ closing = {}

\* C34 (as the code has it): in every step the queue of a session is left
\* as it was, emptied by a clearing get-all, or extended at its end by the
\* one or two messages of that step and cut at its head; the messages a
\* step appends carry the clock reading of that step; a send answered with
\* success has its message last in the queue, so a sent message is
\* queued when the write is acknowledged, after whatever arrived since the
\* send was issued; timestamps never decrease along the queue, and every
\* get-since answer is the queue from some position to its end.
C34_AppendOrder ==
    [][\A i \in DOMAIN instances :
          LET q == instances[i].messageQueue
              r == instances'[i].messageQueue
          IN  /\ \/ r = q
                 \/ r = <<>> /\ ret'.op = "receive" /\ ret'.cleared = "true"
                 \/ \E d \in 0..Len(q), a \in 1..2 :
                       /\ Len(r) = Len(q) - d + a
                       /\ ret'.op # "receive"
                       /\ (\A k \in 1..(Len(q) - d) : r[k] = q[d + k])
                       /\ (\A k \in (Len(q) - d + 1)..Len(r) :
                              r[k].timestamp = now')
              /\ (\A j, k \in 1..Len(r) :
                    j < k => r[j].timestamp <= r[k].timestamp)
              /\ (ret'.op = "send" /\ ret'.success /\ ret'.id = i
                     /\ i \in sockets) =>
                    /\ r # <<>>
                    /\ r[Len(r)].type = "sent"
                    /\ r[Len(r)].id = ret'.messageId
              /\ (ret'.op = "receive" /\ ret'.success /\ ret'.id = i
                     /\ ret'.action = "get-since") =>
                    \E d \in 0..Len(q) :
                       ret'.messages = SubSeq(q, d + 1, Len(q))]_vars

\* C34 as stated: the queue follows the order in which sends were issued
\* and inbound messages arrived, so no inbound message is queued while a
\* send issued before its arrival has yet to be queued
C34_IssueOrder ==
    [][\A i \in DOMAIN instances :
          LET q == instances[i].messageQueue
              r == instances'[i].messageQueue
          IN  (/\ r # q /\ r # <<>>
               /\ r[Len(r)].type = "received" /\ r[Len(r)].data = "data") =>
                  ~\E p \in sending : p.socketId = i]_vars

\* a get-since answer that is a proper part of a queue holding a message
\* received before and a message sent after the clock moved
C34_Witness ==
    /\ ret.op = "receive" /\ ret.success /\ ret.action = "get-since"
    /\ Len(instances) = 1
    /\ Len(instances[1].messageQueue) = 3
    /\ instances[1].messageQueue[2].type = "received"
    /\ instances[1].messageQueue[2].timestamp = 0
    /\ instances[1].messageQueue[3].type = "sent"
    /\ instances[1].messageQueue[3].timestamp = 1
    /\ ret.messages = <<instances[1].messageQueue[3]>>

\* C35: after every step, every WebSocket of a stored session other than
\* the one its handle names is CLOSED, a stored session has status closed
\* only if the WebSocket its handle names is CLOSED, and at most one
\* reconnect timer is pending per session; a step gives a session a new
\* handle only if the session was stored with status closed and the
\* WebSocket of the old handle was CLOSED, and the new handle names a
\* WebSocket made in that step.
C35_OneLiveConnection ==
    [][/\ (\A s \in sockets' :
             /\ (\A h \in DOMAIN ws' :
                    (ws'[h].socketId = s /\ h # instances'[s].socket) =>
                       ws'[h].readyState = CLOSED)
             /\ (instances'[s].status = "closed" =>
                    ws'[instances'[s].socket].readyState = CLOSED))
       /\ (\A n \in DOMAIN instances' :
             Cardinality({t \in timers' : t.socketId = n}) <= 1)
       /\ (\A a \in DOMAIN instances :
             instances'[a].socket # instances[a].socket =>
                /\ a \in sockets
                /\ instances[a].status = "closed"
                /\ ws[instances[a].socket].readyState = CLOSED
                /\ instances'[a].socket \in DOMAIN ws' \ DOMAIN ws
                /\ instances'[a].status = "connecting")]_vars

\* a second reconnection: the session is connecting on its third
\* WebSocket while the two before it are CLOSED and no timer is pending
C35_Witness ==
    /\ 1 \in sockets
    /\ instances[1].socket = 3
    /\ instances[1].status = "connecting"
    /\ ws[3].readyState = CONNECTING
    /\ ws[1].readyState = CLOSED /\ ws[2].readyState = CLOSED
    /\ ws[2].socketId = 1
    /\ timers = {}

====
